---- MODULE Spec2Model ----
(***************************************************************************)
(* Model of the pair-trading engine of waterfirst/pair_trading:            *)
(*   - PairTradingVisualizer.run_backtest (src/src/visualizer.py)          *)
(*   - calculate_max_drawdown (src/src/utils.py)                           *)
(*   - PairFinder.find_pairs (src/src/pair_finder.py)                      *)
(* Floating-point values are modelled as exact rationals <<num, den>>;     *)
(* NaN is the empty tuple.  A value x / sqrt(v) (a z-score, a Sharpe       *)
(* ratio) is kept exactly as its sign and its square.                      *)
(***************************************************************************)
EXTENDS Integers, Sequences, FiniteSets, TLC

VARIABLES
    price_data,     \* run_backtest argument: [s1, s2], sequences of prices or NaN
    entry_z_score,  \* run_backtest argument
    exit_z_score,   \* run_backtest argument
    result,         \* the Dict returned by run_backtest
    other_data,     \* a second price panel, for comparing two runs
    other_result,   \* run_backtest on other_data with the same thresholds
    z_seq,          \* a z-score column, for the position rule alone
    rule_positions, \* the position column computed from z_seq
    series,         \* calculate_max_drawdown argument
    mdd,            \* calculate_max_drawdown return value
    finder,         \* the PairFinder: correlation_threshold, cointegration_pvalue
    panel,          \* find_pairs argument, as far as find_pairs observes it
    scan,           \* locals of find_pairs and _test_cointegration
    pairs_df,       \* find_pairs return value: the rows of the DataFrame
    stdout,         \* the lines printed by find_pairs
    tests,          \* what coint and coint_johansen give for each pair of a panel
    twin,           \* a second find_pairs call, for comparing two scans
    data,           \* optimize_z_score argument: columns "KOSPI" and "S&P 500"
    z_scores,       \* optimize_z_score argument: the candidate thresholds
    base_asset,     \* optimize_z_score argument
    optimizations,  \* main: what optimize_z_score returned or raised
    best_results,   \* main: the row selected from the grid
    results,        \* what pair_trading_analysis returned, with its locals
    score_args,     \* _calculate_investment_score arguments
    investment_score, \* _calculate_investment_score return value
    args,           \* run_period_analysis: the parsed command line
    analyzer,       \* the PeriodAnalyzer: attributes and the scans it made
    provider,       \* the KoreanStockDataProvider: cache fields
    now,            \* datetime.now(), in seconds
    stocks,         \* the last get_stock_list call and what it returned
    pc              \* position of the caller

vars == <<price_data, entry_z_score, exit_z_score, result, other_data,
          other_result, z_seq, rule_positions, series, mdd, finder, panel,
          scan, pairs_df, stdout, tests, twin, data, z_scores, base_asset,
          optimizations, best_results, results, score_args, investment_score,
          args, analyzer, provider, now, stocks, pc>>

backtestVars == <<price_data, entry_z_score, exit_z_score, result, other_data,
                  other_result, z_seq, rule_positions, series, mdd>>
finderVars == <<finder, panel, scan, pairs_df, stdout>>
twinVars == <<tests, twin>>
optVars == <<data, z_scores, base_asset, optimizations, best_results>>
analysisVars == <<results>>
scoreVars == <<score_args, investment_score>>
cliVars == <<args, analyzer>>
providerVars == <<provider, now, stocks>>
restVars == <<analysisVars, scoreVars, cliVars, providerVars>>

----------------------------------------------------------------------------
(* Exact arithmetic standing for float64                                   *)

NaN == <<>>

IsNaN(x) == x = NaN

Abs(a) == IF a < 0 THEN -a ELSE a

RECURSIVE GCD(_, _)
GCD(a, b) == IF b = 0 THEN a ELSE GCD(b, a % b)

Rat(n, d) ==
    LET g == GCD(Abs(n), Abs(d))
        s == IF d < 0 THEN -1 ELSE 1
    IN  <<(s * n) \div g, (s * d) \div g>>

Zero == <<0, 1>>
One == <<1, 1>>

\* +inf and -inf of float64
Inf == <<1, 0>>
NegInf == <<-1, 0>>
IsInf(x) == ~IsNaN(x) /\ x[2] = 0

\* the numerators of x and y over their least common denominator
Num(x, y) == x[1] * (y[2] \div GCD(x[2], y[2]))
Lcd(x, y) == x[2] * (y[2] \div GCD(x[2], y[2]))

\* inf + (-inf) is NaN
RAdd(x, y) == IF IsNaN(x) \/ IsNaN(y) THEN NaN
              ELSE IF IsInf(x) /\ IsInf(y) THEN (IF x = y THEN x ELSE NaN)
              ELSE IF IsInf(x) THEN x
              ELSE IF IsInf(y) THEN y
              ELSE Rat(Num(x, y) + Num(y, x), Lcd(x, y))

RNeg(x) == IF IsNaN(x) THEN NaN ELSE <<-x[1], x[2]>>
RAbs(x) == IF IsNaN(x) THEN NaN ELSE <<Abs(x[1]), x[2]>>
RSign(x) == IF x[1] > 0 THEN 1 ELSE IF x[1] < 0 THEN -1 ELSE 0

RSub(x, y) == RAdd(x, RNeg(y))

\* 0 * inf is NaN
RMul(x, y) ==
    IF IsNaN(x) \/ IsNaN(y) THEN NaN
    ELSE IF IsInf(x) \/ IsInf(y)
    THEN (IF x[1] = 0 \/ y[1] = 0 THEN NaN ELSE <<RSign(x) * RSign(y), 0>>)
    ELSE IF x[1] = 0 \/ y[1] = 0 THEN <<0, 1>>
    ELSE LET g == GCD(Abs(x[1]), y[2])
             h == GCD(Abs(y[1]), x[2])
         IN  <<(x[1] \div g) * (y[1] \div h), (x[2] \div h) * (y[2] \div g)>>

\* 1 / y: 1 / 0 is inf, 1 / inf is 0
Recip(y) == IF y[1] = 0 THEN Inf
            ELSE IF IsInf(y) THEN Zero
            ELSE Rat(y[2], y[1])

\* x / y as in float64: x / 0 is inf or -inf by the sign of x, 0 / 0 and
\* inf / inf are NaN
RDiv(x, y) == IF IsNaN(x) \/ IsNaN(y) \/ (IsInf(x) /\ IsInf(y)) THEN NaN
              ELSE RMul(x, Recip(y))

\* -2 for -inf, 2 for inf, 0 for a finite value
InfRank(x) == IF IsInf(x) THEN 2 * x[1] ELSE 0

\* comparisons: every ordered comparison with NaN is False, != is True
RLt(x, y) ==
    /\ ~IsNaN(x)
    /\ ~IsNaN(y)
    /\ IF IsInf(x) \/ IsInf(y) THEN InfRank(x) < InfRank(y)
                                ELSE Num(x, y) < Num(y, x)
RGt(x, y) == RLt(y, x)
RLe(x, y) ==
    /\ ~IsNaN(x)
    /\ ~IsNaN(y)
    /\ IF IsInf(x) \/ IsInf(y) THEN InfRank(x) <= InfRank(y)
                                ELSE Num(x, y) <= Num(y, x)
RGe(x, y) == RLe(y, x)
RNe(x, y) == IsNaN(x) \/ IsNaN(y) \/ x # y

\* the value sgn * sqrt(sq): a quotient by a standard deviation
Surd(s, q) == [sgn |-> s, sq |-> q]
SurdNaN == Surd(0, NaN)
SurdZero == Surd(0, Zero)
\* the rational r in this form
SurdOf(r) == IF IsNaN(r) THEN SurdNaN ELSE Surd(RSign(r), RMul(r, r))

\* z > c, z < c and |z| < c for a rational c
SurdGt(z, c) ==
    /\ ~IsNaN(z.sq)
    /\ ~IsNaN(c)
    /\ IF c[1] >= 0 THEN z.sgn = 1 /\ RGt(z.sq, RMul(c, c))
                    ELSE z.sgn >= 0 \/ RLt(z.sq, RMul(c, c))
SurdLt(z, c) ==
    /\ ~IsNaN(z.sq)
    /\ ~IsNaN(c)
    /\ IF c[1] <= 0 THEN z.sgn = -1 /\ RGt(z.sq, RMul(c, c))
                    ELSE z.sgn <= 0 \/ RLt(z.sq, RMul(c, c))
SurdAbsLt(z, c) ==
    /\ ~IsNaN(z.sq)
    /\ ~IsNaN(c)
    /\ c[1] > 0
    /\ RLt(z.sq, RMul(c, c))

\* xs[lo] + ... + xs[hi], summed by halves
RECURSIVE RSumRange(_, _, _)
RSumRange(xs, lo, hi) ==
    IF lo > hi THEN Zero
    ELSE IF lo = hi THEN xs[lo]
    ELSE LET mid == (lo + hi) \div 2
         IN  RAdd(RSumRange(xs, lo, mid), RSumRange(xs, mid + 1, hi))

RSum(xs, n) == RSumRange(xs, 1, n)

\* xs[lo] * ... * xs[hi]
RECURSIVE RProdRange(_, _, _)
RProdRange(xs, lo, hi) ==
    IF lo > hi THEN One
    ELSE IF lo = hi THEN xs[lo]
    ELSE LET mid == (lo + hi) \div 2
         IN  RMul(RProdRange(xs, lo, mid), RProdRange(xs, mid + 1, hi))

\* max and min of two values, a NaN being skipped
RMax(a, b) == IF IsNaN(a) THEN b ELSE IF IsNaN(b) THEN a
              ELSE IF RGt(b, a) THEN b ELSE a
RMin(a, b) == IF IsNaN(a) THEN b ELSE IF IsNaN(b) THEN a
              ELSE IF RLt(b, a) THEN b ELSE a

RECURSIVE RMaxRange(_, _, _)
RMaxRange(xs, lo, hi) ==
    IF lo > hi THEN NaN
    ELSE IF lo = hi THEN xs[lo]
    ELSE LET mid == (lo + hi) \div 2
         IN  RMax(RMaxRange(xs, lo, mid), RMaxRange(xs, mid + 1, hi))

RECURSIVE RMinRange(_, _, _)
RMinRange(xs, lo, hi) ==
    IF lo > hi THEN NaN
    ELSE IF lo = hi THEN xs[lo]
    ELSE LET mid == (lo + hi) \div 2
         IN  RMin(RMinRange(xs, lo, mid), RMinRange(xs, mid + 1, hi))

----------------------------------------------------------------------------
(* PairTradingVisualizer.run_backtest                                      *)

MinRows == 30
RollingWindowCap == 60
AnnualDays == 252
HedgeRatio == One

Min(a, b) == IF a < b THEN a ELSE b

\* price_data[[stock1, stock2]].copy().dropna(): the dates with both prices
DropNa(pd) ==
    LET n == Len(pd.s1)
        keep == SelectSeq([i \in 1..n |-> i],
                          LAMBDA i : ~IsNaN(pd.s1[i]) /\ ~IsNaN(pd.s2[i]))
    IN  [date |-> keep,
         s1 |-> [k \in 1..Len(keep) |-> pd.s1[keep[k]]],
         s2 |-> [k \in 1..Len(keep) |-> pd.s2[keep[k]]]]

\* min(60, len(df) // 4)
RollingWindow(n) == Min(RollingWindowCap, n \div 4)

\* (a window reaching one row past t)
Window_Ahead(xs, w, t) == [k \in 1..w |-> xs[Min(Len(xs), t - w + k + 1)]]

\* the last w values of xs ending at row t
Window(xs, w, t) == [k \in 1..w |-> xs[t - w + k]]

\* rolling(window=w).mean() at row t: NaN until w rows are available
RollingMean(xs, w, t) ==
    IF t < w THEN NaN ELSE RDiv(RSum(Window(xs, w, t), w), <<w, 1>>)

\* the sample variance (ddof = 1) behind rolling(window=w).std() at row t
RollingVar(xs, w, t) ==
    IF t < w THEN NaN
    ELSE LET m == RollingMean(xs, w, t)
             win == Window(xs, w, t)
             sq == [k \in 1..w |-> LET d == RSub(win[k], m) IN RMul(d, d)]
         IN  RDiv(RSum(sq, w), <<w - 1, 1>>)

\* (ratio - ratio_mean) / ratio_std at row t
ZScore(ratio, w, t) ==
    LET m == RollingMean(ratio, w, t)
        v == RollingVar(ratio, w, t)
        d == RSub(ratio[t], m)
        q == RDiv(RMul(d, d), v)
    IN  IF IsNaN(q) THEN SurdNaN ELSE Surd(RSign(d), q)

\* (buy compared against +entry)
Signal_SignSlip(z, entry, exit) ==
    LET a == IF SurdGt(z, entry) THEN "sell" ELSE "hold"
        b == IF SurdLt(z, entry) THEN "buy" ELSE a
    IN  IF SurdAbsLt(z, exit) THEN "exit" ELSE b

\* lines 322-330: 'hold', then the three masked assignments in order
Signal(z, entry, exit) ==
    LET a == IF SurdGt(z, entry) THEN "sell" ELSE "hold"
        b == IF SurdLt(z, RNeg(entry)) THEN "buy" ELSE a
    IN  IF SurdAbsLt(z, exit) THEN "exit" ELSE b

\* (entries taken from FLAT only)
NextPosition_FromFlatOnly(signal, current_position) ==
    IF signal = "buy" /\ current_position = 0 THEN 1
    ELSE IF signal = "sell" /\ current_position = 0 THEN -1
    ELSE IF signal = "exit" THEN 0
    ELSE current_position

\* (the exit branch missing)
NextPosition_IgnoreExit(signal, current_position) ==
    IF signal = "buy" /\ current_position <= 0 THEN 1
    ELSE IF signal = "sell" /\ current_position >= 0 THEN -1
    ELSE current_position

\* one iteration of the loop of lines 336-344
NextPosition(signal, current_position) ==
    IF signal = "buy" /\ current_position <= 0 THEN 1
    ELSE IF signal = "sell" /\ current_position >= 0 THEN -1
    ELSE IF signal = "exit" THEN 0
    ELSE current_position

PositionStates == {-1, 0, 1}

\* the effect of the loop iterations of rows lo..hi on current_position
RECURSIVE LoopEffect(_, _, _)
LoopEffect(signals, lo, hi) ==
    IF lo > hi THEN [p \in PositionStates |-> p]
    ELSE IF lo = hi THEN [p \in PositionStates |-> NextPosition(signals[lo], p)]
    ELSE LET mid == (lo + hi) \div 2
             f == LoopEffect(signals, lo, mid)
             g == LoopEffect(signals, mid + 1, hi)
         IN  [p \in PositionStates |-> g[f[p]]]

\* current_position after the first k rows, starting from 0 (line 333)
PositionAfter(signals, k) == LoopEffect(signals, 1, k)[0]

Positions(signals) == [k \in 1..Len(signals) |-> PositionAfter(signals, k)]

\* lines 321-346: the signal column, then the position column
PositionRule(z_score, entry, exit) ==
    Positions([t \in 1..Len(z_score) |-> Signal(z_score[t], entry, exit)])

\* Series.pct_change() at row t
PctChange(xs, t) == IF t = 1 THEN NaN ELSE RSub(RDiv(xs[t], xs[t - 1]), One)

\* (the position column not shifted)
ShiftPosition_NoShift(positions, t) == <<positions[t], 1>>

\* df['position'].shift(1) at row t
ShiftPosition(positions, t) == IF t = 1 THEN NaN ELSE <<positions[t - 1], 1>>

\* (the second leg not weighted by the position)
StrategyReturn_SecondLegUnweighted(positions, r1, r2, t) ==
    LET p == ShiftPosition(positions, t)
    IN  RSub(RMul(p, r1[t]), RMul(HedgeRatio, r2[t]))

\* lines 354-357
StrategyReturn(positions, r1, r2, t) ==
    LET p == ShiftPosition(positions, t)
    IN  RSub(RMul(p, r1[t]), RMul(RMul(p, HedgeRatio), r2[t]))

FillNa0(x) == IF IsNaN(x) THEN Zero ELSE x

\* (1 + strategy_returns.fillna(0)).cumprod() at row t
CumProd(rets, t) ==
    RProdRange([u \in 1..t |-> RAdd(One, FillNa0(rets[u]))], 1, t)

DropNaSeq(xs) == SelectSeq(xs, LAMBDA x : ~IsNaN(x))

Mean(xs) == IF Len(xs) = 0 THEN NaN ELSE RDiv(RSum(xs, Len(xs)), <<Len(xs), 1>>)

\* Series.std() squared (ddof = 1): NaN for fewer than two values
Var(xs) ==
    IF Len(xs) < 2 THEN NaN
    ELSE LET m == Mean(xs)
             sq == [k \in 1..Len(xs) |-> LET d == RSub(xs[k], m) IN RMul(d, d)]
         IN  RDiv(RSum(sq, Len(xs)), <<Len(xs) - 1, 1>>)

\* (the std > 0 test missing)
SharpeRatio_Unguarded(strategy_returns) ==
    LET clean == DropNaSeq(strategy_returns)
        m == Mean(clean)
        q == RMul(RDiv(RMul(m, m), Var(clean)), <<AnnualDays, 1>>)
    IN  IF IsNaN(q) THEN SurdNaN ELSE Surd(RSign(m), q)

\* lines 366-370
SharpeRatio(strategy_returns) ==
    LET clean == DropNaSeq(strategy_returns)
        m == Mean(clean)
        v == Var(clean)
    IN  IF Len(clean) > 0 /\ RGt(v, Zero)
        THEN Surd(RSign(m), RMul(RDiv(RMul(m, m), v), <<AnnualDays, 1>>))
        ELSE SurdZero

\* (the maximum of the whole series)
ExpandingMax_Overall(xs, t) == RMaxRange(xs, 1, Len(xs))

\* expanding(min_periods=1).max() at row t
ExpandingMax(xs, t) == RMaxRange(xs, 1, t)

\* Series.min(): NaN values are skipped, NaN when nothing is left
SeriesMin(xs, n) == RMinRange(xs, 1, n)

\* lines 373-375 (and utils.py 111-114)
MaxDrawdown(cumulative_returns) ==
    LET n == Len(cumulative_returns)
        drawdown == [t \in 1..n |->
            RSub(RDiv(cumulative_returns[t], ExpandingMax(cumulative_returns, t)), One)]
    IN  SeriesMin(drawdown, n)

\* lines 378-380
WinRate(strategy_returns) ==
    LET winning_trades == Len(SelectSeq(strategy_returns, LAMBDA x : RGt(x, Zero)))
        total_trades == Len(SelectSeq(strategy_returns, LAMBDA x : RNe(x, Zero)))
    IN  IF total_trades > 0 THEN Rat(winning_trades, total_trades) ELSE Zero

\* lines 383-385
SignalsDf(df) ==
    LET n == Len(df.date)
        rows == SelectSeq([t \in 1..n |-> t],
                          LAMBDA t : df.signal[t] \in {"buy", "sell", "exit"})
    IN  [k \in 1..Len(rows) |->
            [date |-> df.date[rows[k]], signal |-> df.signal[rows[k]],
             z_score |-> df.z_score[rows[k]], position |-> df.position[rows[k]]]]

\* (30 rows rejected too)
TooShort_Inclusive(n) == n <= MinRows

\* line 302
TooShort(n) == n < MinRows

run_backtest(pd, entry, exit) ==
    LET df == DropNa(pd)
        n == Len(df.date)
    IN  IF TooShort(n)
        THEN [data |-> df, total_return |-> Zero, sharpe_ratio |-> SurdZero,
              max_drawdown |-> Zero, win_rate |-> Zero, signals_df |-> <<>>]
        ELSE
        LET ratio == [t \in 1..n |-> RDiv(df.s1[t], df.s2[t])]
            w == RollingWindow(n)
            z_score == [t \in 1..n |-> ZScore(ratio, w, t)]
            signal == [t \in 1..n |-> Signal(z_score[t], entry, exit)]
            position == PositionRule(z_score, entry, exit)
            r1 == [t \in 1..n |-> PctChange(df.s1, t)]
            r2 == [t \in 1..n |-> PctChange(df.s2, t)]
            rets == [t \in 1..n |-> StrategyReturn(position, r1, r2, t)]
            cum == [t \in 1..n |-> CumProd(rets, t)]
            full == [date |-> df.date, s1 |-> df.s1, s2 |-> df.s2,
                     ratio |-> ratio, z_score |-> z_score, signal |-> signal,
                     position |-> position, stock1_returns |-> r1,
                     stock2_returns |-> r2, strategy_returns |-> rets,
                     cumulative_returns |-> cum]
        IN  [data |-> full,
             total_return |-> RSub(cum[n], One),
             sharpe_ratio |-> SharpeRatio(rets),
             max_drawdown |-> MaxDrawdown(cum),
             win_rate |-> WinRate(rets),
             signals_df |-> SignalsDf(full)]

\* utils.calculate_max_drawdown
calculate_max_drawdown(cumulative_returns) ==
    IF Len(cumulative_returns) = 0 THEN Zero
    ELSE MaxDrawdown(cumulative_returns)

----------------------------------------------------------------------------
(* Inputs: flat price series carrying a three-day motif                    *)

MaxRows == 32
ShortRows == 10
BasePrice == 2
MaxPrice == 3
GapRow == 20

PriceLevels == 1..MaxPrice
Motifs == {<<a, b, c>> : a \in PriceLevels, b \in PriceLevels, c \in PriceLevels}
FlatMotif == <<BasePrice, BasePrice, BasePrice>>
\* motifs that leave from and come back to the base price
ReturningMotifs == {m \in Motifs : m[1] = BasePrice /\ m[3] = BasePrice}
Offsets == {6, 12}

\* entry and exit thresholds: the defaults (2.0, 0.5), two finer valid
\* configurations, and one with entry <= exit
Half == <<1, 2>>
Two == <<2, 1>>
Thresholds == {<<Two, Half>>, <<One, <<1, 4>>>>, <<One, Zero>>, <<Half, One>>}

\* a series of n prices at BasePrice with motif m starting at row off;
\* row gap (if any) is missing
PriceSeries(n, m, off, gap) ==
    [i \in 1..n |->
        IF i = gap THEN NaN
        ELSE IF i >= off /\ i < off + Len(m) THEN <<m[i - off + 1], 1>>
        ELSE <<BasePrice, 1>>]

Panel(n, m1, m2, off, gap) ==
    [s1 |-> PriceSeries(n, m1, off, 0), s2 |-> PriceSeries(n, m2, off, gap)]

\* full-length panels, and panels around the 30-row limit (too few rows, or
\* rows lost to a missing price)
MainPanels ==
    {Panel(n, m1, m2, off, 0) :
        n \in {MinRows, MaxRows}, m1 \in Motifs, m2 \in ReturningMotifs, off \in Offsets}
EdgePanels ==
    {Panel(n, m1, FlatMotif, 12, gap) :
        n \in {ShortRows, MinRows - 1, MinRows, MinRows + 1},
        m1 \in ReturningMotifs, gap \in {0, GapRow}}

NoData == [s1 |-> <<>>, s2 |-> <<>>]
NoResult == [data |-> [date |-> <<>>, s1 |-> <<>>, s2 |-> <<>>],
             total_return |-> NaN, sharpe_ratio |-> SurdNaN,
             max_drawdown |-> NaN, win_rate |-> NaN, signals_df |-> <<>>]

BacktestIdle ==
    /\ price_data = NoData
    /\ result = NoResult
OtherIdle ==
    /\ other_data = NoData
    /\ other_result = NoResult
RuleIdle ==
    /\ z_seq = <<>>
    /\ rule_positions = <<>>
DrawdownIdle ==
    /\ series = <<>>
    /\ mdd = NaN
NoPanel == [columns |-> <<>>]
NoScan == [high_corr_pairs |-> <<>>]
FinderIdle ==
    /\ finder = [correlation_threshold |-> NaN, cointegration_pvalue |-> NaN]
    /\ panel = NoPanel
    /\ scan = NoScan
    /\ pairs_df = <<>>
    /\ stdout = <<>>
NoTests == [eg |-> <<>>, joh |-> <<>>]
NoTwin == [panel |-> NoPanel]
TwinIdle ==
    /\ tests = NoTests
    /\ twin = NoTwin
NoQuotes == [c \in {"KOSPI", "S&P 500"} |-> <<>>]
NoGrid == [raised |-> FALSE, rows |-> <<>>]
NoBest == [raised |-> FALSE, index |-> 0]
OptIdle ==
    /\ data = NoQuotes
    /\ z_scores = <<>>
    /\ base_asset = ""
    /\ optimizations = NoGrid
    /\ best_results = NoBest
NoAnalysis == [called |-> FALSE]
AnalysisIdle == results = NoAnalysis
NoScoreArgs == [correlation |-> NaN]
ScoreIdle ==
    /\ score_args = NoScoreArgs
    /\ investment_score = NaN
NoArgs == [correlation |-> NaN, pvalue |-> NaN]
NoAnalyzer == [scans |-> <<>>]
CliIdle ==
    /\ args = NoArgs
    /\ analyzer = NoAnalyzer
NoProvider == [cache_duration |-> 0]
NoCall == [called |-> FALSE]
ProviderIdle ==
    /\ provider = NoProvider
    /\ now = 0
    /\ stocks = NoCall
RestIdle == AnalysisIdle /\ ScoreIdle /\ CliIdle /\ ProviderIdle

----------------------------------------------------------------------------
(* One call of run_backtest                                                *)

Init ==
    /\ price_data \in MainPanels \cup EdgePanels
    /\ \E th \in Thresholds : entry_z_score = th[1] /\ exit_z_score = th[2]
    /\ result = NoResult
    /\ OtherIdle
    /\ RuleIdle
    /\ DrawdownIdle
    /\ FinderIdle
    /\ TwinIdle
    /\ OptIdle
    /\ pc = "ready"
    /\ RestIdle

RunBacktest ==
    /\ pc = "ready"
    /\ price_data # NoData
    /\ result' = run_backtest(price_data, entry_z_score, exit_z_score)
    /\ pc' = "done"
    /\ UNCHANGED <<price_data, entry_z_score, exit_z_score, other_data,
                   other_result, z_seq, rule_positions, series, mdd>>
    /\ UNCHANGED <<finderVars, twinVars, optVars, restVars>>

Next == RunBacktest

Spec == Init /\ [][Next]_vars

----------------------------------------------------------------------------
(* Two calls of run_backtest on panels with a common beginning             *)

\* panels that differ from p at most in the last motif day and in length
Variants(m1) ==
    {Panel(n, <<m1[1], m1[2], c>>, FlatMotif, 12, 0) :
        n \in MinRows..MaxRows, c \in PriceLevels}

InitTwoRuns ==
    /\ \E n \in {MinRows, MaxRows}, m1 \in ReturningMotifs :
          /\ price_data = Panel(n, m1, FlatMotif, 12, 0)
          /\ other_data \in Variants(m1)
    /\ \E th \in {<<Two, Half>>, <<One, <<1, 4>>>>} :
          entry_z_score = th[1] /\ exit_z_score = th[2]
    /\ result = NoResult
    /\ other_result = NoResult
    /\ RuleIdle
    /\ DrawdownIdle
    /\ FinderIdle
    /\ TwinIdle
    /\ OptIdle
    /\ pc = "ready"
    /\ RestIdle

RunOther ==
    /\ pc = "done"
    /\ other_data # NoData
    /\ other_result = NoResult
    /\ other_result' = run_backtest(other_data, entry_z_score, exit_z_score)
    /\ UNCHANGED <<price_data, entry_z_score, exit_z_score, result, other_data,
                   z_seq, rule_positions, series, mdd, pc>>
    /\ UNCHANGED <<finderVars, twinVars, optVars, restVars>>

NextTwoRuns == RunBacktest \/ RunOther

SpecTwoRuns == InitTwoRuns /\ [][NextTwoRuns]_vars

----------------------------------------------------------------------------
(* The position rule of run_backtest on a given z-score column             *)

MaxRuleLen == 6

ZLevels == {SurdOf(Zero), SurdOf(<<5, 2>>), SurdOf(<<1, 5>>), SurdOf(<<-5, 2>>)}

RECURSIVE SeqsUpTo(_, _)
SeqsUpTo(S, n) ==
    IF n = 0 THEN {<<>>}
    ELSE LET shorter == SeqsUpTo(S, n - 1)
         IN  shorter \cup {Append(q, x) : q \in {r \in shorter : Len(r) = n - 1}, x \in S}

InitRule ==
    /\ z_seq \in SeqsUpTo(ZLevels, MaxRuleLen) \ {<<>>}
    /\ rule_positions = <<>>
    /\ entry_z_score = Two
    /\ exit_z_score \in {Half, <<1, 10>>}
    /\ BacktestIdle
    /\ OtherIdle
    /\ DrawdownIdle
    /\ FinderIdle
    /\ TwinIdle
    /\ OptIdle
    /\ pc = "ready"
    /\ RestIdle

ApplyPositionRule ==
    /\ pc = "ready"
    /\ z_seq # <<>>
    /\ rule_positions' = PositionRule(z_seq, entry_z_score, exit_z_score)
    /\ pc' = "done"
    /\ UNCHANGED <<price_data, entry_z_score, exit_z_score, result, other_data,
                   other_result, z_seq, series, mdd>>
    /\ UNCHANGED <<finderVars, twinVars, optVars, restVars>>

NextRule == ApplyPositionRule

SpecRule == InitRule /\ [][NextRule]_vars

----------------------------------------------------------------------------
(* utils.calculate_max_drawdown on a given cumulative-return series        *)

MaxSeriesLen == 4

CumLevels == {<<-1, 2>>, Zero, <<9, 10>>, One, <<11, 10>>, <<6, 5>>}

\* cumulative returns are seeded at 1.0: the series starts above zero
InitDrawdown ==
    /\ series \in {q \in SeqsUpTo(CumLevels, MaxSeriesLen) : q = <<>> \/ RGt(q[1], Zero)}
    /\ mdd = NaN
    /\ entry_z_score = Two
    /\ exit_z_score = Half
    /\ BacktestIdle
    /\ OtherIdle
    /\ RuleIdle
    /\ FinderIdle
    /\ TwinIdle
    /\ OptIdle
    /\ pc = "ready"
    /\ RestIdle

CalcMaxDrawdown ==
    /\ pc = "ready"
    /\ price_data = NoData
    /\ z_seq = <<>>
    /\ mdd' = calculate_max_drawdown(series)
    /\ pc' = "done"
    /\ UNCHANGED <<price_data, entry_z_score, exit_z_score, result, other_data,
                   other_result, z_seq, rule_positions, series>>
    /\ UNCHANGED <<finderVars, twinVars, optVars, restVars>>

NextDrawdown == CalcMaxDrawdown

SpecDrawdown == InitDrawdown /\ [][NextDrawdown]_vars

----------------------------------------------------------------------------
(* PairFinder.find_pairs.  The price panel is kept as what find_pairs      *)
(* observes of it: its columns, whether it is empty, the number of         *)
(* complete log-return rows, the correlation matrix of the log returns and *)
(* the number of common dates of each pair.  The results of statsmodels'   *)
(* coint and coint_johansen are inputs of each loop iteration.             *)

MinCommon == 30

\* (the comparison turned round)
HighCorrelation_Below(correlation, threshold) ==
    ~IsNaN(correlation) /\ RLe(RAbs(correlation), threshold)

\* (the absolute value missing)
HighCorrelation_Signed(correlation, threshold) ==
    ~IsNaN(correlation) /\ RGe(correlation, threshold)

\* abs(correlation) >= self.correlation_threshold, for a defined correlation
HighCorrelation(correlation, threshold) ==
    ~IsNaN(correlation) /\ RGe(RAbs(correlation), threshold)

\* the index pairs (i, j), i < j, in the order of the two nested loops
UpperPairs(n) ==
    SelectSeq([k \in 1..(n * n) |-> <<((k - 1) \div n) + 1, ((k - 1) % n) + 1>>],
              LAMBDA q : q[1] < q[2])

_find_high_correlation_pairs(self, pnl) ==
    IF pnl.log_return_rows = 0 THEN <<>>
    ELSE LET symbols == pnl.columns
             kept == SelectSeq(UpperPairs(Len(symbols)),
                        LAMBDA q : HighCorrelation(pnl.corr[{symbols[q[1]], symbols[q[2]]}],
                                                   self.correlation_threshold))
         IN  [k \in 1..Len(kept) |->
                [stock1 |-> symbols[kept[k][1]], stock2 |-> symbols[kept[k][2]],
                 correlation |-> pnl.corr[{symbols[kept[k][1]], symbols[kept[k][2]]}]]]

\* (a failed residual test reported as a pass)
_engle_granger_test_FailureAsPass(self, out) ==
    IF out.raised
    THEN [p_value |-> Zero, is_cointegrated |-> TRUE]
    ELSE [p_value |-> out.p_value,
          is_cointegrated |-> RLt(out.p_value, self.cointegration_pvalue)]

\* coint(s1, s2) raised, or returned the p-value
_engle_granger_test(self, out) ==
    IF out.raised
    THEN [p_value |-> One, is_cointegrated |-> FALSE]
    ELSE [p_value |-> out.p_value,
          is_cointegrated |-> RLt(out.p_value, self.cointegration_pvalue)]

\* (a failed trace test reported like one that ran and found nothing)
_johansen_test_FailureAsNoSignal(out) ==
    IF out.raised
    THEN [is_cointegrated |-> FALSE, p_value |-> <<1, 20>>]
    ELSE LET is_cointegrated == RGt(out.lr1, out.cvt)
         IN  [is_cointegrated |-> is_cointegrated,
              p_value |-> IF ~is_cointegrated THEN <<1, 20>> ELSE <<1, 100>>]

\* coint_johansen raised, or returned the trace statistic lr1[0] and its
\* 5% critical value cvt[0, 1]
_johansen_test(out) ==
    IF out.raised
    THEN [is_cointegrated |-> FALSE, p_value |-> One]
    ELSE LET is_cointegrated == RGt(out.lr1, out.cvt)
         IN  [is_cointegrated |-> is_cointegrated,
              p_value |-> IF ~is_cointegrated THEN <<1, 20>> ELSE <<1, 100>>]

\* (the first argument, whatever the second)
PyMin_First(a, b) == a

\* Python's min(a, b)
PyMin(a, b) == IF RLt(b, a) THEN b ELSE a

\* (every tested pair kept)
IsCointegrated_Always(self, coint_result, johansen_result) ==
    \/ RLt(coint_result.p_value, self.cointegration_pvalue)
    \/ johansen_result.is_cointegrated
    \/ TRUE

\* lines 145-147
IsCointegrated(self, coint_result, johansen_result) ==
    \/ RLt(coint_result.p_value, self.cointegration_pvalue)
    \/ johansen_result.is_cointegrated

\* one iteration of the loop of _test_cointegration: the rows it appends
TestCandidate(self, pnl, cand, eg_out, joh_out) ==
    IF pnl.common[{cand.stock1, cand.stock2}] < MinCommon THEN <<>>
    ELSE LET coint_result == _engle_granger_test(self, eg_out)
             johansen_result == _johansen_test(joh_out)
         IN  IF IsCointegrated(self, coint_result, johansen_result)
             THEN <<[Stock1 |-> cand.stock1,
                     Stock2 |-> cand.stock2,
                     Correlation |-> cand.correlation,
                     Cointegration_PValue |->
                         PyMin(coint_result.p_value, johansen_result.p_value),
                     EG_PValue |-> coint_result.p_value,
                     Johansen_Cointegrated |-> johansen_result.is_cointegrated]>>
             ELSE <<>>

\* sort_values(['Cointegration_PValue', 'Correlation'], ascending=[True, False])
SortsBefore(r, q) ==
    \/ RLt(r.Cointegration_PValue, q.Cointegration_PValue)
    \/ /\ r.Cointegration_PValue = q.Cointegration_PValue
       /\ RGt(r.Correlation, q.Correlation)

\* r put into the sorted rows, after the rows it does not sort before
InsertRow(sorted, r) ==
    LET k == Cardinality({i \in 1..Len(sorted) : ~SortsBefore(r, sorted[i])})
    IN  SubSeq(sorted, 1, k) \o <<r>> \o SubSeq(sorted, k + 1, Len(sorted))

RECURSIVE SortRows(_, _)
SortRows(rows, n) ==
    IF n = 0 THEN <<>> ELSE InsertRow(SortRows(rows, n - 1), rows[n])

\* lines 56-69
FinishFindPairs(cointegrated_pairs) ==
    IF cointegrated_pairs = <<>>
    THEN [df |-> <<>>, out |-> <<"no cointegrated pairs">>]
    ELSE [df |-> SortRows(cointegrated_pairs, Len(cointegrated_pairs)),
          out |-> <<"cointegrated pairs found">>]

Symbols == {"A", "B", "C"}
PanelRows == 60
CorrLevels == {NaN, <<1, 2>>, <<-3, 5>>, <<4, 5>>, <<17, 20>>, <<-19, 20>>}
CointOutcomes == {[raised |-> TRUE, p_value |-> NaN],
                  [raised |-> FALSE, p_value |-> <<3, 100>>],
                  [raised |-> FALSE, p_value |-> <<2, 25>>]}
JohansenOutcomes == {[raised |-> TRUE, lr1 |-> NaN, cvt |-> NaN],
                     [raised |-> FALSE, lr1 |-> <<10, 1>>, cvt |-> <<15, 1>>],
                     [raised |-> FALSE, lr1 |-> <<20, 1>>, cvt |-> <<15, 1>>]}

PairsOf(cols) == {{cols[i], cols[j]} : i \in 1..Len(cols), j \in 1..Len(cols)} \
                 {{cols[i]} : i \in 1..Len(cols)}

\* a correlation matrix log_returns.corr() can give for the columns A, B, C:
\* NaN exactly in the rows of the columns without variance, and positive
\* semidefinite (1 + 2abc >= a^2 + b^2 + c^2) when all are defined
IsCorrelationMatrix(c) ==
    /\ \E flat \in SUBSET Symbols :
          \A q \in DOMAIN c : IsNaN(c[q]) <=> (q \cap flat # {})
    /\ (\A q \in DOMAIN c : ~IsNaN(c[q])) =>
          LET ab == c[{"A", "B"}]
              ac == c[{"A", "C"}]
              bc == c[{"B", "C"}]
          IN  RGe(RAdd(One, RMul(<<2, 1>>, RMul(ab, RMul(ac, bc)))),
                  RAdd(RMul(ab, ab), RAdd(RMul(ac, ac), RMul(bc, bc))))

\* panels with prices: every pair has all dates in common, or the pair of
\* the first two columns has one too few
PricedPanels ==
    {[columns |-> cols, empty |-> FALSE, log_return_rows |-> PanelRows - 1,
      corr |-> c, common |-> [q \in PairsOf(cols) |->
                  IF short /\ q = {cols[1], cols[2]} THEN MinCommon - 1 ELSE PanelRows]] :
        cols \in {<<"A", "B">>, <<"A", "B", "C">>},
        c \in {m \in [PairsOf(<<"A", "B", "C">>) -> CorrLevels] : IsCorrelationMatrix(m)},
        short \in BOOLEAN}

\* panels without rows, with a single row (no log return), with < 2 columns
BarePanels ==
    {[columns |-> cols, empty |-> e, log_return_rows |-> 0,
      corr |-> [q \in PairsOf(cols) |-> NaN], common |-> [q \in PairsOf(cols) |-> 0]] :
        cols \in {<<>>, <<"A">>, <<"A", "B">>}, e \in BOOLEAN} \
    {[columns |-> <<>>, empty |-> FALSE, log_return_rows |-> 0,
      corr |-> [q \in {} |-> NaN], common |-> [q \in {} |-> 0]]}

InitPairs ==
    /\ finder \in {[correlation_threshold |-> <<4, 5>>, cointegration_pvalue |-> pv] :
                      pv \in {<<1, 20>>, <<1, 10>>}}
    /\ panel \in PricedPanels \cup BarePanels
    /\ scan = NoScan
    /\ pairs_df = <<>>
    /\ stdout = <<>>
    /\ BacktestIdle
    /\ OtherIdle
    /\ RuleIdle
    /\ DrawdownIdle
    /\ TwinIdle
    /\ OptIdle
    /\ entry_z_score = Two
    /\ exit_z_score = Half
    /\ pc = "ready"
    /\ RestIdle

ProgressEvery == 10

\* lines 123-124: the progress line of iteration i (from 0)
Progress(i) == IF i % ProgressEvery = 0 THEN <<"progress">> ELSE <<>>

\* find_pairs up to the loop of _test_cointegration (lines 39-54, 120)
FindPairsCall ==
    /\ pc = "ready"
    /\ panel # NoPanel
    /\ IF panel.empty \/ Len(panel.columns) < 2
       THEN /\ pairs_df' = <<>>
            /\ pc' = "returned"
            /\ UNCHANGED <<scan, stdout>>
       ELSE LET high_corr_pairs == _find_high_correlation_pairs(finder, panel)
            IN  IF high_corr_pairs = <<>>
                THEN /\ stdout' = stdout \o <<"scanning", "no high correlation pairs">>
                     /\ pairs_df' = <<>>
                     /\ pc' = "returned"
                     /\ scan' = scan
                ELSE /\ stdout' = stdout \o <<"scanning", "high correlation pairs found">>
                     /\ scan' = [high_corr_pairs |-> high_corr_pairs, i |-> 0,
                                 tested |-> <<>>, cointegrated_pairs |-> <<>>]
                     /\ pc' = "testing"
                     /\ pairs_df' = pairs_df
    /\ UNCHANGED <<finder, panel>>
    /\ UNCHANGED <<backtestVars, twinVars, optVars, restVars>>

\* one iteration of the loop of _test_cointegration; after the last one,
\* the rest of find_pairs (lines 56-69)
TestNextPair ==
    /\ pc = "testing"
    /\ LET cand == scan.high_corr_pairs[scan.i + 1]
           ran == panel.common[{cand.stock1, cand.stock2}] >= MinCommon
       IN  \E eg_out \in CointOutcomes, joh_out \in JohansenOutcomes :
              /\ LET rows == scan.cointegrated_pairs \o
                                 TestCandidate(finder, panel, cand, eg_out, joh_out)
                     \* a skipped pair calls neither test
                     log == IF ran THEN [ran |-> TRUE, eg |-> eg_out, joh |-> joh_out]
                            ELSE [ran |-> FALSE]
                 IN  /\ scan' = [scan EXCEPT !.i = @ + 1,
                                             !.tested = Append(@, log),
                                             !.cointegrated_pairs = rows]
                     /\ IF scan.i + 1 = Len(scan.high_corr_pairs)
                        THEN LET fin == FinishFindPairs(rows)
                             IN  /\ pairs_df' = fin.df
                                 /\ stdout' = stdout \o Progress(scan.i) \o fin.out
                                 /\ pc' = "returned"
                        ELSE /\ stdout' = stdout \o Progress(scan.i)
                             /\ UNCHANGED <<pairs_df, pc>>
    /\ UNCHANGED <<finder, panel>>
    /\ UNCHANGED <<backtestVars, twinVars, optVars, restVars>>

NextPairs == FindPairsCall \/ TestNextPair

SpecPairs == InitPairs /\ [][NextPairs]_vars

----------------------------------------------------------------------------
(* find_pairs as a function of the panel and of what the two statsmodels   *)
(* tests give for each pair: coint(s1, s2) regresses s1 on s2 and depends  *)
(* on the order of its arguments; the trace statistic of coint_johansen    *)
(* does not.                                                                *)

\* the rows _test_cointegration appends for the first n candidates
RECURSIVE _test_cointegration(_, _, _, _, _)
_test_cointegration(self, pnl, candidate_pairs, t, n) ==
    IF n = 0 THEN <<>>
    ELSE LET cand == candidate_pairs[n]
         IN  _test_cointegration(self, pnl, candidate_pairs, t, n - 1) \o
             TestCandidate(self, pnl, cand, t.eg[<<cand.stock1, cand.stock2>>],
                           t.joh[{cand.stock1, cand.stock2}])

\* the progress lines of a loop over n candidates
ProgressLines(n) ==
    LET shown == SelectSeq([k \in 1..n |-> k - 1], LAMBDA i : Progress(i) # <<>>)
    IN  [k \in 1..Len(shown) |-> Progress(shown[k])[1]]

\* lines 28-69: the frame returned and the lines printed
find_pairs(self, pnl, t) ==
    IF pnl.empty \/ Len(pnl.columns) < 2 THEN [df |-> <<>>, out |-> <<>>]
    ELSE LET high_corr_pairs == _find_high_correlation_pairs(self, pnl)
         IN  IF high_corr_pairs = <<>>
             THEN [df |-> <<>>, out |-> <<"scanning", "no high correlation pairs">>]
             ELSE LET fin == FinishFindPairs(
                                 _test_cointegration(self, pnl, high_corr_pairs, t,
                                                     Len(high_corr_pairs)))
                  IN  [df |-> fin.df,
                       out |-> <<"scanning", "high correlation pairs found">> \o
                               ProgressLines(Len(high_corr_pairs)) \o fin.out]

\* the same panel with its columns in another order
Reordered(pnl, perm) ==
    [pnl EXCEPT !.columns = [k \in 1..Len(pnl.columns) |-> pnl.columns[perm[k]]]]

Reorderings == {<<2, 1, 3>>, <<1, 3, 2>>, <<3, 2, 1>>, <<2, 3, 1>>, <<3, 1, 2>>}
CorrelationThresholds == {<<1, 2>>, <<4, 5>>, <<17, 20>>, <<19, 20>>}
RanCoint == {o \in CointOutcomes : ~o.raised}

ABC == <<"A", "B", "C">>

\* the tests of the pairs of A, B, C: the residual test of A and B may
\* differ with the order of the two; the trace test of B and C finds nothing
TestTables ==
    {[eg |-> [q \in {<<a, b>> : a, b \in Symbols} \ {<<a, a>> : a \in Symbols} |->
                IF q = <<"A", "B">> THEN ab
                ELSE IF q = <<"B", "A">> THEN ba
                ELSE rest],
      joh |-> [q \in PairsOf(ABC) |->
                IF q = {"B", "C"} THEN [raised |-> FALSE, lr1 |-> <<10, 1>>, cvt |-> <<15, 1>>]
                ELSE j]] :
        ab \in RanCoint, ba \in RanCoint, rest \in RanCoint, j \in JohansenOutcomes}

FullPanels(levels) ==
    {[columns |-> ABC, empty |-> FALSE, log_return_rows |-> PanelRows - 1,
      corr |-> c, common |-> [q \in PairsOf(ABC) |-> PanelRows]] :
        c \in {m \in [PairsOf(ABC) -> levels] : IsCorrelationMatrix(m)}}

\* two scans of one panel: with the columns reordered, or with a higher
\* correlation threshold
InitTwoScans ==
    /\ \/ /\ finder \in {[correlation_threshold |-> <<4, 5>>, cointegration_pvalue |-> pv] :
                            pv \in {<<1, 20>>, <<1, 10>>}}
          /\ panel \in FullPanels(CorrLevels \ {NaN})
          /\ tests \in TestTables
          /\ \E perm \in Reorderings :
                twin = [finder |-> finder, panel |-> Reordered(panel, perm)]
       \/ /\ finder \in {[correlation_threshold |-> c, cointegration_pvalue |-> <<1, 20>>] :
                            c \in CorrelationThresholds}
          /\ panel \in FullPanels(CorrLevels)
          /\ tests \in {t \in TestTables :
                          /\ t.eg[<<"A", "B">>] = t.eg[<<"B", "A">>]
                          /\ t.eg[<<"A", "B">>] = t.eg[<<"A", "C">>]
                          /\ t.eg[<<"A", "B">>].p_value = <<3, 100>>
                          /\ ~t.joh[{"A", "B"}].raised /\ RLt(t.joh[{"A", "B"}].lr1, <<15, 1>>)}
          /\ \E c \in CorrelationThresholds :
                /\ RLe(finder.correlation_threshold, c)
                /\ twin = [finder |-> [finder EXCEPT !.correlation_threshold = c],
                           panel |-> panel]
    /\ scan = NoScan
    /\ pairs_df = <<>>
    /\ stdout = <<>>
    /\ BacktestIdle
    /\ OtherIdle
    /\ RuleIdle
    /\ DrawdownIdle
    /\ OptIdle
    /\ entry_z_score = Two
    /\ exit_z_score = Half
    /\ pc = "ready"
    /\ RestIdle

\* finder.find_pairs(panel)
ScanPanel ==
    /\ pc = "ready"
    /\ "finder" \in DOMAIN twin
    /\ scan' = [high_corr_pairs |->
                   IF panel.empty \/ Len(panel.columns) < 2 THEN <<>>
                   ELSE _find_high_correlation_pairs(finder, panel)]
    /\ LET found == find_pairs(finder, panel, tests)
       IN  /\ pairs_df' = found.df
           /\ stdout' = stdout \o found.out
    /\ pc' = "scanned"
    /\ UNCHANGED <<finder, panel, twinVars, backtestVars, optVars, restVars>>

\* twin.finder.find_pairs(twin.panel)
ScanTwin ==
    /\ pc = "scanned"
    /\ twin' = [finder |-> twin.finder,
                panel |-> twin.panel,
                high_corr_pairs |->
                   IF twin.panel.empty \/ Len(twin.panel.columns) < 2 THEN <<>>
                   ELSE _find_high_correlation_pairs(twin.finder, twin.panel),
                pairs_df |-> find_pairs(twin.finder, twin.panel, tests).df]
    /\ stdout' = stdout \o find_pairs(twin.finder, twin.panel, tests).out
    /\ pc' = "compared"
    /\ UNCHANGED <<finder, panel, scan, pairs_df, tests, backtestVars, optVars, restVars>>

NextTwoScans == ScanPanel \/ ScanTwin

SpecTwoScans == InitTwoScans /\ [][NextTwoScans]_vars

----------------------------------------------------------------------------
(* app.optimize_z_score and the selection of the best row in app.main.     *)
(* Prices are powers of two, so that a log return is a whole multiple of   *)
(* ln 2: a return is held as its multiple, a product of (1 + return) as    *)
(* the coefficients of its polynomial in ln 2, a Sharpe ratio as a surd.   *)

\* log2 of a power of two
RECURSIVE Log2Int(_)
Log2Int(n) == IF n <= 1 THEN 0 ELSE 1 + Log2Int(n \div 2)

\* np.log(x) in units of ln 2
LogUnits(x) == IF IsNaN(x) \/ x[1] < 0 THEN NaN
               ELSE IF x[1] = 0 THEN NegInf
               ELSE IF IsInf(x) THEN Inf
               ELSE <<Log2Int(x[1]) - Log2Int(x[2]), 1>>

\* np.log(data / data.shift(1)).dropna(), at the rows 2..n of a column
LogReturns(col) == [t \in 1..(Len(col) - 1) |-> LogUnits(RDiv(col[t + 1], col[t]))]

\* z >= c and z <= c for a rational c
SurdGe(z, c) == ~IsNaN(z.sq) /\ ~IsNaN(c) /\ ~SurdLt(z, c)
SurdLe(z, c) == ~IsNaN(z.sq) /\ ~IsNaN(c) /\ ~SurdGt(z, c)

\* a < b for two surds
SurdLess(a, b) ==
    /\ ~IsNaN(a.sq)
    /\ ~IsNaN(b.sq)
    /\ \/ a.sgn < b.sgn
       \/ a.sgn = 1 /\ b.sgn = 1 /\ RLt(a.sq, b.sq)
       \/ a.sgn = -1 /\ b.sgn = -1 /\ RGt(a.sq, b.sq)

\* np.std(spread) squared (ddof = 0)
PopVar(xs) ==
    LET m == Mean(xs)
        sq == [k \in 1..Len(xs) |-> LET d == RSub(xs[k], m) IN RMul(d, d)]
    IN  RDiv(RSum(sq, Len(xs)), <<Len(xs), 1>>)

\* lines 47-52: a Series of z-scores, or the ndarray np.zeros_like gives
calculate_zscore(spread) ==
    LET mean == Mean(spread)
        var == PopVar(spread)
    IN  IF var = Zero
        THEN [ndarray |-> TRUE, values |-> [t \in 1..Len(spread) |-> SurdZero]]
        ELSE [ndarray |-> FALSE,
              values |-> [t \in 1..Len(spread) |->
                            LET d == RSub(spread[t], mean)
                            IN  Surd(RSign(d), RDiv(RMul(d, d), var))]]

\* lines 243-246
Spread(d, base) ==
    [t \in 1..Len(d["KOSPI"]) |->
        IF base = "KOSPI" THEN RSub(d["KOSPI"][t], d["S&P 500"][t])
                          ELSE RSub(d["S&P 500"][t], d["KOSPI"][t])]

\* (the entries taken at the exit threshold)
GridPosition_EntryAtExit(z, entry, exit) ==
    LET p1 == IF SurdLt(z, RNeg(exit)) THEN 1 ELSE 0
        p2 == IF SurdGt(z, exit) THEN -1 ELSE p1
    IN  IF SurdGe(z, RNeg(exit)) /\ SurdLe(z, exit) THEN 0 ELSE p2

\* lines 255-258
GridPosition(z, entry, exit) ==
    LET p1 == IF SurdLt(z, RNeg(entry)) THEN 1 ELSE 0
        p2 == IF SurdGt(z, entry) THEN -1 ELSE p1
    IN  IF SurdGe(z, RNeg(exit)) /\ SurdLe(z, exit) THEN 0 ELSE p2

\* lines 260-267: the product aligns on the index; row 1 has no log return
\* and no shifted position
GridReturns(d, base, position) ==
    LET k == LogReturns(d["KOSPI"])
        sp == LogReturns(d["S&P 500"])
    IN  [t \in 1..Len(position) |->
            IF t = 1 THEN NaN
            ELSE RMul(IF base = "KOSPI" THEN RSub(k[t - 1], sp[t - 1])
                                        ELSE RSub(sp[t - 1], k[t - 1]),
                      <<position[t - 1], 1>>)]

\* p * (1 + x ln 2), on the coefficients of p
TimesOnePlus(p, x) ==
    IF x = Zero THEN p
    ELSE [k \in 1..(Len(p) + 1) |->
            RAdd(IF k <= Len(p) THEN p[k] ELSE Zero,
                 IF k > 1 THEN RMul(x, p[k - 1]) ELSE Zero)]

\* (1 + strategy_returns).cumprod() at row t; cumprod skips NaN
RECURSIVE CumProdSkipNa(_, _)
CumProdSkipNa(rets, t) ==
    IF t = 0 THEN <<One>>
    ELSE IF IsNaN(rets[t]) THEN CumProdSkipNa(rets, t - 1)
    ELSE TimesOnePlus(CumProdSkipNa(rets, t - 1), rets[t])

\* lines 269-270
GridTotalReturn(rets) ==
    LET n == Len(rets)
    IN  IF IsNaN(rets[n]) THEN NaN
        ELSE LET cum == CumProdSkipNa(rets, n)
             IN  [cum EXCEPT ![1] = RSub(@, One)]

\* lines 271-274: NaN != 0, so a NaN std gives a NaN ratio
GridSharpe(rets) ==
    LET clean == DropNaSeq(rets)
        m == Mean(clean)
        v == Var(clean)
    IN  IF RNe(v, Zero)
        THEN LET q == RMul(RDiv(RMul(m, m), v), <<AnnualDays, 1>>)
             IN  IF IsNaN(q) THEN SurdNaN ELSE Surd(RSign(m), q)
        ELSE SurdZero

\* (equal thresholds let through)
Skipped_Strict(entry, exit) == RLt(entry, exit)

\* lines 252-253
Skipped(entry, exit) == RLe(entry, exit)

\* product(z_scores, repeat=2)
Product(zs) ==
    [k \in 1..(Len(zs) * Len(zs)) |->
        <<zs[((k - 1) \div Len(zs)) + 1], zs[((k - 1) % Len(zs)) + 1]>>]

\* lines 239-283; z_score.index raises on the ndarray of a constant spread
optimize_z_score(d, zs, base) ==
    LET z_score == calculate_zscore(Spread(d, base))
        cells == SelectSeq(Product(zs), LAMBDA c : ~Skipped(c[1], c[2]))
    IN  IF cells # <<>> /\ z_score.ndarray
        THEN [raised |-> TRUE, rows |-> <<>>]
        ELSE [raised |-> FALSE,
              rows |-> [k \in 1..Len(cells) |->
                  LET position == [t \in 1..Len(z_score.values) |->
                                      GridPosition(z_score.values[t], cells[k][1], cells[k][2])]
                      strategy_returns == GridReturns(d, base, position)
                  IN  [entry |-> cells[k][1],
                       exit |-> cells[k][2],
                       total_return |-> GridTotalReturn(strategy_returns),
                       sharpe_ratio |-> GridSharpe(strategy_returns)]]]

\* (the last of the rows with the largest value)
IdxMax_Last(rows) ==
    LET best == {i \in 1..Len(rows) :
                    /\ ~IsNaN(rows[i].sharpe_ratio.sq)
                    /\ \A j \in 1..Len(rows) :
                          ~SurdLess(rows[i].sharpe_ratio, rows[j].sharpe_ratio)}
    IN  IF best = {} THEN 0 ELSE CHOOSE i \in best : \A j \in best : j <= i

\* Series.idxmax(): the first row with the largest value, NaN skipped;
\* 0 when there is no value
IdxMax(rows) ==
    LET best == {i \in 1..Len(rows) :
                    /\ ~IsNaN(rows[i].sharpe_ratio.sq)
                    /\ \A j \in 1..Len(rows) :
                          ~SurdLess(rows[i].sharpe_ratio, rows[j].sharpe_ratio)}
    IN  IF best = {} THEN 0 ELSE CHOOSE i \in best : \A j \in best : i <= j

\* main, lines 337-339: an exception of optimize_z_score goes through;
\* an empty DataFrame has no column "sharpe_ratio" (KeyError); with no
\* value idxmax gives no label of a row
SelectBest(grid) ==
    IF grid.raised \/ grid.rows = <<>> \/ IdxMax(grid.rows) = 0
    THEN [raised |-> TRUE, index |-> 0]
    ELSE [raised |-> FALSE, index |-> IdxMax(grid.rows),
          row |-> grid.rows[IdxMax(grid.rows)]]

OptRows == 4
LogPrices == {<<1, 1>>, <<2, 1>>, <<4, 1>>}
ZCandidates == {<<>>, <<One>>, <<Half, One>>, <<<<1, 4>>, Half, One>>,
                <<One, Half, <<1, 4>>>>}

\* S&P 500 flat, or moving down and up
SP500Series(n) ==
    {[t \in 1..n |-> <<2, 1>>], [t \in 1..n |-> IF t % 2 = 0 THEN <<1, 1>> ELSE <<2, 1>>]}

QuotesOf(n) ==
    {[c \in {"KOSPI", "S&P 500"} |-> IF c = "KOSPI" THEN k ELSE sp] :
        k \in [1..n -> LogPrices], sp \in SP500Series(n)}

InitOptimize ==
    /\ data \in QuotesOf(2) \cup QuotesOf(OptRows)
    /\ z_scores \in ZCandidates
    /\ base_asset \in {"KOSPI", "S&P 500"}
    /\ optimizations = NoGrid
    /\ best_results = NoBest
    /\ BacktestIdle
    /\ OtherIdle
    /\ RuleIdle
    /\ DrawdownIdle
    /\ FinderIdle
    /\ TwinIdle
    /\ entry_z_score = Two
    /\ exit_z_score = Half
    /\ pc = "ready"
    /\ RestIdle

\* main, line 336
OptimizeZScore ==
    /\ pc = "ready"
    /\ data # NoQuotes
    /\ optimizations' = optimize_z_score(data, z_scores, base_asset)
    /\ pc' = "optimized"
    /\ UNCHANGED <<data, z_scores, base_asset, best_results>>
    /\ UNCHANGED <<backtestVars, finderVars, twinVars, restVars>>

\* main, lines 337-339
SelectBestResult ==
    /\ pc = "optimized"
    /\ best_results' = SelectBest(optimizations)
    /\ pc' = "selected"
    /\ UNCHANGED <<data, z_scores, base_asset, optimizations>>
    /\ UNCHANGED <<backtestVars, finderVars, twinVars, restVars>>

NextOptimize == OptimizeZScore \/ SelectBestResult

SpecOptimize == InitOptimize /\ [][NextOptimize]_vars

----------------------------------------------------------------------------
(* app.py: pair_trading_analysis, called on the thresholds of a grid row   *)

\* stats.pearsonr(y0, y1)[0]: NaN for a constant input
Pearson(y0, y1) ==
    LET n == Len(y0)
        m0 == Mean(y0)
        m1 == Mean(y1)
        cov == RSum([k \in 1..n |-> RMul(RSub(y0[k], m0), RSub(y1[k], m1))], n)
        s0 == RSum([k \in 1..n |-> RMul(RSub(y0[k], m0), RSub(y0[k], m0))], n)
        s1 == RSum([k \in 1..n |-> RMul(RSub(y1[k], m1), RSub(y1[k], m1))], n)
    IN  IF s0 = Zero \/ s1 = Zero THEN SurdNaN
        ELSE Surd(RSign(cov), RDiv(RMul(cov, cov), RMul(s0, s1)))

\* lines 191-194
AnalysisSignal(z, entry, exit) ==
    LET s1 == IF SurdLt(z, RNeg(entry)) THEN "buy" ELSE "neutral"
        s2 == IF SurdGt(z, entry) THEN "sell" ELSE s1
    IN  IF SurdGe(z, RNeg(exit)) /\ SurdLe(z, exit) THEN "neutral" ELSE s2

\* (the previous position kept between the exit and the entry threshold)
AnalysisPosition_Hysteresis(z, entry, t) ==
    IF SurdLt(z[t], RNeg(entry)) THEN 1
    ELSE IF SurdGt(z[t], entry) THEN -1
    ELSE IF t > 1 /\ SurdLt(z[t - 1], RNeg(entry)) THEN 1
    ELSE IF t > 1 /\ SurdGt(z[t - 1], entry) THEN -1
    ELSE 0

\* lines 196-203: np.where on the z-score of date t alone
AnalysisPosition(z, entry, t) ==
    IF SurdLt(z[t], RNeg(entry)) THEN 1
    ELSE IF SurdGt(z[t], entry) THEN -1
    ELSE 0

\* lines 206-213: log_returns and position.shift(1).dropna() both start at
\* the second date; element t is the return of date t + 1
AnalysisReturns(d, base, position) ==
    LET k == LogReturns(d["KOSPI"])
        sp == LogReturns(d["S&P 500"])
    IN  [t \in 1..(Len(position) - 1) |->
            RMul(IF base = "KOSPI" THEN RSub(k[t], sp[t]) ELSE RSub(sp[t], k[t]),
                 <<position[t], 1>>)]

\* lines 177-237. A constant spread makes z_score an ndarray, z_score.index
\* raises, and the handler at 235-237 returns None; so does a frame of one
\* row (iloc[-1] on no returns). p_value and annualized_return (a real
\* power) are not carried; position is the local of lines 196-203.
pair_trading_analysis(d, entry_threshold, exit_threshold, base) ==
    LET n == Len(d["KOSPI"])
        z_score == calculate_zscore(Spread(d, base))
    IN  IF z_score.ndarray \/ n < 2
        THEN [none |-> TRUE]
        ELSE LET z == z_score.values
                 signals == [t \in 1..n |->
                                AnalysisSignal(z[t], entry_threshold, exit_threshold)]
                 position == [t \in 1..n |-> AnalysisPosition(z, entry_threshold, t)]
                 strategy_returns == AnalysisReturns(d, base, position)
             IN  [none |-> FALSE,
                  correlation |-> Pearson(d["KOSPI"], d["S&P 500"]),
                  z_score |-> z,
                  signals |-> signals,
                  position |-> position,
                  cumulative_returns |->
                      [t \in 1..(n - 1) |-> CumProdSkipNa(strategy_returns, t)],
                  total_return |-> GridTotalReturn(strategy_returns),
                  sharpe_ratio |-> GridSharpe(strategy_returns),
                  strategy_returns |-> strategy_returns]

Analysis(d, entry, exit, base) ==
    [called |-> TRUE, entry_threshold |-> entry, exit_threshold |-> exit,
     out |-> pair_trading_analysis(d, entry, exit, base)]

\* main, lines 340-345: the analysis on the thresholds of the selected row
AnalyzeBest ==
    /\ pc = "selected"
    /\ ~best_results.raised
    /\ results' = Analysis(data, best_results.row.entry, best_results.row.exit,
                           base_asset)
    /\ pc' = "analyzed"
    /\ UNCHANGED <<backtestVars, finderVars, twinVars, optVars>>
    /\ UNCHANGED <<scoreVars, cliVars, providerVars>>

\* the analysis on the thresholds of any row of the grid
AnalyzeRow ==
    /\ pc = "optimized"
    /\ ~optimizations.raised
    /\ \E r \in 1..Len(optimizations.rows) :
          results' = Analysis(data, optimizations.rows[r].entry,
                              optimizations.rows[r].exit, base_asset)
    /\ pc' = "analyzed"
    /\ UNCHANGED <<backtestVars, finderVars, twinVars, optVars>>
    /\ UNCHANGED <<scoreVars, cliVars, providerVars>>

NextAnalysis == OptimizeZScore \/ SelectBestResult \/ AnalyzeBest \/ AnalyzeRow

SpecAnalysis == InitOptimize /\ [][NextAnalysis]_vars

----------------------------------------------------------------------------
(* period_analyzer.py: the investment score                                *)

olderVars == <<backtestVars, finderVars, twinVars, optVars>>
OlderIdle ==
    /\ BacktestIdle
    /\ OtherIdle
    /\ RuleIdle
    /\ DrawdownIdle
    /\ FinderIdle
    /\ TwinIdle
    /\ OptIdle
    /\ entry_z_score = Two
    /\ exit_z_score = Half

\* PeriodAnalyzer.__init__, lines 34-40
evaluation_weights ==
    [total_return |-> <<3, 10>>, sharpe_ratio |-> <<1, 4>>,
     max_drawdown |-> <<1, 5>>, win_rate |-> <<3, 20>>, correlation |-> <<1, 10>>]
Metrics == <<"total_return", "sharpe_ratio", "max_drawdown", "win_rate", "correlation">>

\* Python's max(a, b)
PyMax(a, b) == IF RGt(b, a) THEN b ELSE a

Hundred == <<100, 1>>

\* (no upper limit)
Clamp_NoUpper(x) == PyMax(Zero, x)

\* max(0, min(100, x)): a NaN x compares False and leaves 100
Clamp(x) == PyMax(Zero, PyMin(Hundred, x))

\* lines 206-225
Scores(backtest_results, correlation) ==
    [total_return |->
        Clamp(RAdd(<<50, 1>>, RMul(backtest_results.total_return, <<250, 1>>))),
     sharpe_ratio |->
        Clamp(RAdd(<<50, 1>>, RMul(backtest_results.sharpe_ratio, <<25, 1>>))),
     max_drawdown |->
        Clamp(RSub(Hundred, RMul(RAbs(backtest_results.max_drawdown), <<500, 1>>))),
     win_rate |-> Clamp(RMul(backtest_results.win_rate, Hundred)),
     correlation |-> Clamp(RMul(RAbs(correlation), Hundred))]

\* round(x, 2) for x >= 0: the nearest multiple of 0.01, a tie to the even one
Round2(x) ==
    IF IsNaN(x) \/ IsInf(x) THEN x ELSE
    LET y == RMul(x, Hundred)
        q == y[1] \div y[2]
        r == y[1] % y[2]
        up == 2 * r > y[2] \/ (2 * r = y[2] /\ q % 2 = 1)
    IN  Rat(IF up THEN q + 1 ELSE q, 100)

\* lines 193-233
_calculate_investment_score(backtest_results, correlation) ==
    LET scores == Scores(backtest_results, correlation)
        terms == [k \in 1..Len(Metrics) |->
                     RMul(scores[Metrics[k]], evaluation_weights[Metrics[k]])]
        final_score == RSum(terms, Len(Metrics))
    IN  Round2(final_score)

\* the metrics of a backtest result and a correlation: values below, at,
\* between and above the points where a component score reaches 0 and 100,
\* and NaN
TotalReturns == {NaN, <<-1, 2>>, <<-1, 5>>, <<-1, 10>>, Zero, <<1, 30>>, <<1, 5>>, One}
SharpeRatios == {NaN, <<-3, 1>>, <<-2, 1>>, Zero, <<1, 3>>, <<2, 1>>, <<5, 2>>}
MaxDrawdowns == {NaN, Zero, <<-1, 10>>, <<-1, 7>>, <<-1, 5>>, <<-1, 2>>}
WinRates == {NaN, Zero, <<1, 3>>, <<1, 2>>, One}
Correlations == {<<-1, 1>>, <<-4, 5>>, Zero, <<7, 10>>, <<19, 20>>, One}
ScoreArgs ==
    {[backtest_results |-> [total_return |-> tr, sharpe_ratio |-> sr,
                            max_drawdown |-> dd, win_rate |-> wr],
      correlation |-> c] :
        tr \in TotalReturns, sr \in SharpeRatios, dd \in MaxDrawdowns,
        wr \in WinRates, c \in Correlations}

InitScore ==
    /\ score_args \in ScoreArgs
    /\ investment_score = NaN
    /\ OlderIdle
    /\ AnalysisIdle
    /\ CliIdle
    /\ ProviderIdle
    /\ pc = "ready"

\* analyze_period, lines 156-158
CalculateInvestmentScore ==
    /\ pc = "ready"
    /\ score_args # NoScoreArgs
    /\ investment_score' =
          _calculate_investment_score(score_args.backtest_results, score_args.correlation)
    /\ pc' = "done"
    /\ UNCHANGED <<score_args, olderVars, analysisVars, cliVars, providerVars>>

NextScore == CalculateInvestmentScore

SpecScore == InitScore /\ [][NextScore]_vars

----------------------------------------------------------------------------
(* run_period_analysis.py: the command line and the scans of the periods   *)

\* PeriodAnalyzer.__init__, lines 26-31: the periods in months
Periods == <<6, 12, 24, 60>>

\* analyze_period, lines 128-131
PeriodCorrelationThreshold == <<7, 10>>
PeriodCointegrationPValue == <<1, 20>>

\* validate_arguments, lines 108-112 (the csv file exists, --stocks and
\* --pairs are in range)
ArgumentErrors(a) ==
    {e \in {"correlation", "pvalue"} :
        \/ e = "correlation" /\ ~(RLe(<<1, 2>>, a.correlation) /\ RLe(a.correlation, <<19, 20>>))
        \/ e = "pvalue" /\ ~(RLe(<<1, 100>>, a.pvalue) /\ RLe(a.pvalue, <<1, 10>>))}

\* analyze_period, lines 128-131: the PairFinder of the scan; the
\* attributes of self are not read
PeriodFinder ==
    [correlation_threshold |-> PeriodCorrelationThreshold,
     cointegration_pvalue |-> PeriodCointegrationPValue]

\* analyze_period, lines 115-133 and 189-191: the download raised, gave no
\* prices, or gave the prices find_pairs is called on
DownloadOutcomes == {"raised", "empty", "prices"}
analyze_period(self, months, download) ==
    IF download = "prices"
    THEN [period |-> months, scanned |-> TRUE, pair_finder |-> PeriodFinder]
    ELSE [period |-> months, scanned |-> FALSE]

\* --correlation and --pvalue: the defaults 0.7 and 0.05, other values in
\* range, and values out of range
CliCorrelations == {<<3, 10>>, <<1, 2>>, <<7, 10>>, <<4, 5>>, <<19, 20>>, One}
CliPValues == {<<1, 200>>, <<1, 100>>, <<1, 20>>, <<1, 10>>, <<1, 2>>}

InitCli ==
    /\ args \in {[correlation |-> c, pvalue |-> p] :
                    c \in CliCorrelations, p \in CliPValues}
    /\ analyzer = NoAnalyzer
    /\ OlderIdle
    /\ AnalysisIdle
    /\ ScoreIdle
    /\ ProviderIdle
    /\ pc = "ready"

\* main, line 172: validate_arguments ends the process on an error
ValidateArguments ==
    /\ pc = "ready"
    /\ args # NoArgs
    /\ pc' = IF ArgumentErrors(args) # {} THEN "exit" ELSE "validated"
    /\ UNCHANGED <<args, analyzer, olderVars, analysisVars, scoreVars, providerVars>>

\* main, lines 184-188
ConfigureAnalyzer ==
    /\ pc = "validated"
    /\ analyzer' = [correlation_threshold |-> args.correlation,
                    cointegration_pvalue |-> args.pvalue,
                    scans |-> <<>>]
    /\ pc' = "configured"
    /\ UNCHANGED <<args, olderVars, analysisVars, scoreVars, providerVars>>

\* run_full_analysis, lines 250-253: no stocks loaded ends the analysis
LoadStocks ==
    /\ pc = "configured"
    /\ \E empty \in BOOLEAN : pc' = IF empty THEN "done" ELSE "analyzing"
    /\ UNCHANGED <<args, analyzer, olderVars, analysisVars, scoreVars, providerVars>>

\* run_full_analysis, lines 266-272: the next period of the loop
AnalyzePeriod ==
    /\ pc = "analyzing"
    /\ Len(analyzer.scans) < Len(Periods)
    /\ \E download \in DownloadOutcomes :
          analyzer' = [analyzer EXCEPT !.scans =
              Append(@, analyze_period(analyzer, Periods[Len(@) + 1], download))]
    /\ pc' = IF Len(analyzer.scans) + 1 = Len(Periods) THEN "done" ELSE "analyzing"
    /\ UNCHANGED <<args, olderVars, analysisVars, scoreVars, providerVars>>

NextCli == ValidateArguments \/ ConfigureAnalyzer \/ LoadStocks \/ AnalyzePeriod

SpecCli == InitCli /\ [][NextCli]_vars

----------------------------------------------------------------------------
(* data_provider.py: the stock-list cache of KoreanStockDataProvider       *)

CacheDuration == 3600
SecondsPerDay == 86400
MaxDays == 1

\* the times between two calls: half an hour, an hour, a day
ShortSteps == {CacheDuration \div 2, CacheDuration}
\* calls are made in the first two hours of a day
MaxOffset == 2 * CacheDuration

None == [none |-> TRUE]

\* the markets of the argument; "ALL" is the default, both markets
Markets == {"KOSPI", "KOSDAQ", "ALL"}
MaxCounts == {1, 200}

\* what fdr.StockListing gives for a market (columns Symbol, Name, Market)
Listing(m) ==
    IF m = "KOSPI"
    THEN <<[Symbol |-> "005930", Name |-> "Samsung", Market |-> "KOSPI"],
           [Symbol |-> "069500", Name |-> "KODEX ETF", Market |-> "KOSPI"],
           [Symbol |-> "000660", Name |-> "Hynix", Market |-> "KOSPI"]>>
    ELSE <<[Symbol |-> "247540", Name |-> "Ecopro", Market |-> "KOSDAQ"],
           [Symbol |-> "091990", Name |-> "Celltrion", Market |-> "KOSDAQ"]>>

\* fdr.StockListing raised, or returned no row, or the listing
FetchOutcomes == {"raised", "empty", "listing"}
Fetched(m, outcome) == IF outcome = "listing" THEN Listing(m) ELSE <<>>

\* lines 79-83: the names holding one of the excluded keywords
ExcludedNames == {"KODEX ETF"}

\* timedelta.seconds: the seconds within the day, the days left out
TimedeltaSeconds(elapsed) == elapsed % SecondsPerDay

\* lines 36-38
CacheIsFresh(self, current_time) ==
    /\ self.stock_list_cache # None
    /\ self.cache_timestamp # None
    /\ TimedeltaSeconds(current_time - self.cache_timestamp.at) < self.cache_duration

\* lines 60-91: the columns kept are Symbol, Name and Market, so the
\* MarketCap filter and nlargest never apply
CleanStocks(rows, max_count) ==
    LET kept == SelectSeq(rows, LAMBDA r : r.Name \notin ExcludedNames)
    IN  IF Len(kept) > max_count THEN SubSeq(kept, 1, max_count) ELSE kept

\* lines 21-91: the provider after the call and the frame returned;
\* kospi and kosdaq are the outcomes of the fetches the call may make
get_stock_list(self, current_time, market, max_count, kospi, kosdaq) ==
    IF CacheIsFresh(self, current_time)
    THEN [self |-> self, fetched |-> FALSE,
          out |-> CleanStocks(self.stock_list_cache.rows, max_count)]
    ELSE IF \/ market \in {"KOSPI", "ALL"} /\ kospi = "raised"
            \/ market \in {"KOSDAQ", "ALL"} /\ kosdaq = "raised"
    THEN [self |-> self, fetched |-> TRUE, out |-> <<>>]
    ELSE LET rows == IF market = "KOSPI" THEN Fetched("KOSPI", kospi)
                     ELSE IF market = "KOSDAQ" THEN Fetched("KOSDAQ", kosdaq)
                     ELSE Fetched("KOSPI", kospi) \o Fetched("KOSDAQ", kosdaq)
         IN  [self |-> [self EXCEPT !.stock_list_cache = [rows |-> rows],
                                    !.cache_timestamp = [at |-> current_time]],
              fetched |-> TRUE,
              out |-> CleanStocks(rows, max_count)]

InitProvider ==
    /\ provider = [stock_list_cache |-> None, cache_timestamp |-> None,
                   cache_duration |-> CacheDuration]
    /\ now = 0
    /\ stocks = NoCall
    /\ OlderIdle
    /\ AnalysisIdle
    /\ ScoreIdle
    /\ CliIdle
    /\ pc = "ready"

\* time passes between two calls
Tick ==
    /\ provider # NoProvider
    /\ \/ \E d \in ShortSteps :
             /\ (now % SecondsPerDay) + d <= MaxOffset
             /\ now' = now + d
       \/ /\ now \div SecondsPerDay < MaxDays
          /\ now' = now + SecondsPerDay
    /\ UNCHANGED <<provider, stocks, pc>>
    /\ UNCHANGED <<olderVars, analysisVars, scoreVars, cliVars>>

\* a call of get_stock_list at the current time
GetStockList ==
    /\ provider # NoProvider
    /\ \E market \in Markets, max_count \in MaxCounts,
          kospi \in FetchOutcomes, kosdaq \in FetchOutcomes :
          LET call == get_stock_list(provider, now, market, max_count, kospi, kosdaq)
          IN  /\ provider' = call.self
              /\ stocks' = [called |-> TRUE, market |-> market,
                            cached_at |-> provider.cache_timestamp,
                            at |-> now,
                            fetched |-> call.fetched, out |-> call.out]
    /\ UNCHANGED <<now, pc>>
    /\ UNCHANGED <<olderVars, analysisVars, scoreVars, cliVars>>

NextProvider == Tick \/ GetStockList

SpecProvider == InitProvider /\ [][NextProvider]_vars

----------------------------------------------------------------------------
(* Properties of run_backtest                                              *)

Done == pc = "done" /\ result # NoResult
\* the full simulation ran: the result carries the computed columns
Full == "position" \in DOMAIN result.data
Rows == Len(result.data.date)
ValidThresholds == RGt(entry_z_score, exit_z_score) /\ RGe(exit_z_score, Zero)

Below(z) == SurdLt(z, RNeg(entry_z_score))
Above(z) == SurdGt(z, entry_z_score)
Inside(z) == SurdAbsLt(z, exit_z_score)

PrevPosition(t) == IF t = 1 THEN 0 ELSE result.data.position[t - 1]

\* C1: with entryZ > exitZ >= 0 the position column follows the state machine,
\* date by date from FLAT: z < -entryZ sets +1 from FLAT or SHORT, z > entryZ
\* sets -1 from FLAT or LONG, |z| < exitZ sets 0 from any state, and on
\* every other date (dead zone or undefined z) the position is the previous one.
C1_PositionStateMachine ==
    (Done /\ Full /\ ValidThresholds) =>
        \A t \in 1..Rows :
            LET z == result.data.z_score[t]
                prev == PrevPosition(t)
                pos == result.data.position[t]
            IN  /\ (Below(z) /\ prev \in {0, -1}) => pos = 1
                /\ (Above(z) /\ prev \in {0, 1}) => pos = -1
                /\ Inside(z) => pos = 0
                /\ (~Below(z) /\ ~Above(z) /\ ~Inside(z)) => pos = prev

\* a run that flips SHORT -> LONG directly, leaves a position on an exit
\* date, and holds a position through a dead-zone date and an undefined z
C1_Witness ==
    /\ Done /\ Full /\ ValidThresholds
    /\ \E t \in 1..Rows : PrevPosition(t) = -1 /\ result.data.position[t] = 1
    /\ \E t \in 1..Rows : PrevPosition(t) # 0 /\ Inside(result.data.z_score[t])
    /\ \E t \in 1..Rows :
          LET z == result.data.z_score[t]
          IN  /\ PrevPosition(t) # 0
              /\ ~IsNaN(z.sq) /\ ~Below(z) /\ ~Above(z) /\ ~Inside(z)

\* the simple return (p_t - p_{t-1}) / p_{t-1} of a price column
SimpleReturn(xs, t) == RDiv(RSub(xs[t], xs[t - 1]), xs[t - 1])

\* C2: the strategy return at date t is position[t-1] * (return1[t] -
\* return2[t]); the first date has no strategy return and contributes a
\* factor 1 to the cumulative return.
C2_ReturnUsesPreviousPosition ==
    (Done /\ Full) =>
        /\ IsNaN(result.data.strategy_returns[1])
        /\ result.data.cumulative_returns[1] = One
        /\ \A t \in 2..Rows :
              result.data.strategy_returns[t] =
                  RMul(<<result.data.position[t - 1], 1>>,
                       RSub(SimpleReturn(result.data.s1, t),
                            SimpleReturn(result.data.s2, t)))

\* a date on which the position changes while the two returns differ and
\* the previous position is open
C2_Witness ==
    /\ Done /\ Full
    /\ \E t \in 2..Rows :
          /\ result.data.position[t] # result.data.position[t - 1]
          /\ result.data.position[t - 1] # 0
          /\ result.data.position[t] # 0
          /\ RNe(result.data.strategy_returns[t], Zero)

BothDone == Done /\ Full /\ other_result # NoResult /\ "position" \in DOMAIN other_result.data

\* the two panels have the same prices on every date <= t
AgreeUpTo(t) ==
    /\ t <= Len(price_data.s1)
    /\ t <= Len(other_data.s1)
    /\ \A i \in 1..t : /\ price_data.s1[i] = other_data.s1[i]
                       /\ price_data.s2[i] = other_data.s2[i]

\* the two runs have the same z-score, signal, position and strategy return
\* on every date <= t
SameUpTo(t) ==
    \A i \in 1..t :
        /\ result.data.z_score[i] = other_result.data.z_score[i]
        /\ result.data.signal[i] = other_result.data.signal[i]
        /\ result.data.position[i] = other_result.data.position[i]
        /\ result.data.strategy_returns[i] = other_result.data.strategy_returns[i]

AnyDate == 1..(MaxRows + 1)

\* C3 as stated: two series of at least 30 rows that agree on every date
\* <= t give identical z-score, signal, position and strategy return on
\* every date <= t, however many later dates either has.
C3_NoLookAheadAnyLength ==
    BothDone => \A t \in AnyDate : AgreeUpTo(t) => SameUpTo(t)

\* C3 amended: the same, for two series with the same rolling window
\* min(60, rows // 4).
C3_NoLookAheadSameWindow ==
    (BothDone /\ Min(60, Len(price_data.s1) \div 4) = Min(60, Len(other_data.s1) \div 4)) =>
        \A t \in AnyDate : AgreeUpTo(t) => SameUpTo(t)

\* two runs of different length and same window that part after date 13,
\* with a position open before they part
C3_Witness ==
    /\ BothDone
    /\ Len(price_data.s1) # Len(other_data.s1)
    /\ Len(price_data.s1) \div 4 = Len(other_data.s1) \div 4
    /\ AgreeUpTo(13) /\ ~AgreeUpTo(14)
    /\ result.data.position[13] # 0

\* the label the thresholds give a z-score
Label(z) ==
    IF Below(z) THEN "buy"
    ELSE IF Above(z) THEN "sell"
    ELSE IF Inside(z) THEN "exit"
    ELSE "hold"

\* C4: for thresholds entryZ > exitZ >= 0, the signal of each date is a
\* function of that date's z-score and the thresholds only: 'buy' when
\* z < -entryZ, 'sell' when z > entryZ, 'exit' when |z| < exitZ, 'hold'
\* otherwise (undefined z included).
C4_SignalIsLabelOfZ ==
    (Done /\ Full /\ ValidThresholds) =>
        \A t \in 1..Rows : result.data.signal[t] = Label(result.data.z_score[t])

\* a run showing all four labels, with 'hold' both on an undefined z and in
\* the dead zone while a position is open
C4_Witness ==
    /\ Done /\ Full /\ ValidThresholds
    /\ \A l \in {"buy", "sell", "exit", "hold"} :
          \E t \in 1..Rows : result.data.signal[t] = l
    /\ \E t \in 1..Rows : /\ result.data.signal[t] = "hold"
                          /\ ~IsNaN(result.data.z_score[t].sq)
                          /\ result.data.position[t] # 0

\* the present prices of the panel handed to run_backtest
Usable ==
    Cardinality({i \in 1..Len(price_data.s1) :
                    ~IsNaN(price_data.s1[i]) /\ ~IsNaN(price_data.s2[i])})

\* C6: with fewer than 30 rows having both prices, run_backtest returns
\* zero total_return, sharpe_ratio, max_drawdown and win_rate and an empty
\* signal list; with 30 or more it runs the full simulation.
C6_ShortPanelZeroResult ==
    Done =>
        /\ Usable < 30 =>
              /\ result.total_return = Zero
              /\ result.sharpe_ratio = SurdZero
              /\ result.max_drawdown = Zero
              /\ result.win_rate = Zero
              /\ result.signals_df = <<>>
              /\ ~Full
        /\ Usable >= 30 =>
              /\ Full
              /\ Len(result.data.position) = Usable

\* a panel of 30 dates of which one lacks a price
C6_Witness ==
    /\ Done
    /\ Len(price_data.s1) = 30
    /\ Usable = 29

\* C7: win_rate is the number of dates with strategy return > 0 over the
\* number of dates with a defined, nonzero strategy return (0 when there is
\* none); the undefined first return counts in neither.
C7_WinRateOverNonzeroReturns ==
    (Done /\ Full) =>
        LET rets == result.data.strategy_returns
            wins == Cardinality({t \in 1..Rows : ~IsNaN(rets[t]) /\ RGt(rets[t], Zero)})
            trades == Cardinality({t \in 1..Rows : ~IsNaN(rets[t]) /\ rets[t] # Zero})
        IN  result.win_rate = IF trades > 0 THEN Rat(wins, trades) ELSE Zero

AllFlat == \A t \in 1..Rows : result.data.position[t] = 0

\* the defined strategy returns are all equal: their standard deviation is 0
ZeroStd ==
    \A t \in 2..Rows, u \in 2..Rows :
        result.data.strategy_returns[t] = result.data.strategy_returns[u]

\* C9: when the strategy returns have zero standard deviation the Sharpe
\* ratio is exactly 0 (no division by zero); when the position is FLAT on
\* every date, total_return, max_drawdown and win_rate are 0 as well.
C9_ZeroStdZeroSharpe ==
    (Done /\ Full) =>
        /\ ZeroStd => result.sharpe_ratio = SurdZero
        /\ AllFlat =>
              /\ result.sharpe_ratio = SurdZero
              /\ result.total_return = Zero
              /\ result.max_drawdown = Zero
              /\ result.win_rate = Zero

\* an all-FLAT run on a panel whose two prices do move apart
C9_Witness ==
    /\ Done /\ Full /\ AllFlat
    /\ \E t \in 2..Rows :
          RNe(result.data.stock1_returns[t], result.data.stock2_returns[t])

----------------------------------------------------------------------------
(* Properties of the position rule and of the drawdown                     *)

Z5 == <<SurdOf(Zero), SurdOf(<<5, 2>>), SurdOf(<<5, 2>>), SurdOf(<<1, 5>>),
        SurdOf(<<-5, 2>>), SurdOf(<<1, 5>>)>>

RuleCase == pc = "done" /\ z_seq = Z5 /\ entry_z_score = Two /\ exit_z_score = Half

\* C5 as stated: z = [0, 2.5, 2.5, 0.2, -2.5, 0.2] with entry 2.0 and exit
\* 0.5 yields the positions [0, -1, -1, -1, 1, 1].
C5_PositionsAsStated == RuleCase => rule_positions = <<0, -1, -1, -1, 1, 1>>

\* C5 amended: it yields [0, -1, -1, 0, 1, 0]: both dates with z = 0.2 are
\* inside the exit band and set the position to FLAT.
C5_PositionsOfExample == RuleCase => rule_positions = <<0, -1, -1, 0, 1, 0>>

C5_Witness == RuleCase /\ Len(rule_positions) = 6

ScenarioD == <<One, <<11, 10>>, <<9, 10>>, <<6, 5>>>>

\* the largest of series[1..t]
RunningPeak(t) ==
    CHOOSE x \in {series[u] : u \in 1..t} :
        \A y \in {series[u] : u \in 1..t} : RLe(y, x)

DrawdownAt(t) == RSub(RDiv(series[t], RunningPeak(t)), One)

\* C8: max drawdown is the minimum over the dates t of cumulative[t] over
\* the running maximum up to t, minus 1; it is <= 0, and for
\* [1.0, 1.1, 0.9, 1.2] it is 0.9/1.1 - 1.
C8_MaxDrawdownIsMinOverDates ==
    (pc = "done" /\ series # <<>>) =>
        /\ \E t \in 1..Len(series) : mdd = DrawdownAt(t)
        /\ \A t \in 1..Len(series) : RLe(mdd, DrawdownAt(t))
        /\ RLe(mdd, Zero)
        /\ series = ScenarioD => mdd = RSub(RDiv(<<9, 10>>, <<11, 10>>), One)

C8_Witness == pc = "done" /\ series = ScenarioD /\ mdd = <<-2, 11>>

----------------------------------------------------------------------------
(* Properties of find_pairs                                                *)

Returned == pc = "returned" /\ panel # NoPanel

\* the candidates of the scan with the outcome of their tests
Candidates == IF "tested" \in DOMAIN scan THEN 1..Len(scan.tested) ELSE {}

EGPValue(k) == IF scan.tested[k].eg.raised THEN One ELSE scan.tested[k].eg.p_value
TraceSignals(k) ==
    /\ ~scan.tested[k].joh.raised
    /\ RGt(scan.tested[k].joh.lr1, scan.tested[k].joh.cvt)

\* the decision rule: Engle-Granger p-value below the threshold, or the
\* trace test signals cointegration
PassesRule(k) ==
    /\ scan.tested[k].ran
    /\ RLt(EGPValue(k), finder.cointegration_pvalue) \/ TraceSignals(k)

RowsOf(k) ==
    {r \in 1..Len(pairs_df) :
        /\ pairs_df[r].Stock1 = scan.high_corr_pairs[k].stock1
        /\ pairs_df[r].Stock2 = scan.high_corr_pairs[k].stock2}

\* every row is the row of a candidate
RowsAreCandidates ==
    \A r \in 1..Len(pairs_df) : \E k \in Candidates : r \in RowsOf(k)

\* C10 as stated: a pair is in the output iff it is a correlation candidate
\* passing the decision rule, and its Cointegration_PValue is the minimum
\* of the Engle-Granger p-value and the trace-derived p-value, 0.01 if the
\* trace test signals cointegration and 0.05 otherwise.
C10_RuleAndPValueAsStated ==
    Returned =>
        /\ RowsAreCandidates
        /\ \A k \in Candidates :
              /\ (RowsOf(k) # {}) <=> PassesRule(k)
              /\ \A r \in RowsOf(k) :
                    pairs_df[r].Cointegration_PValue =
                        RMin(EGPValue(k),
                             IF TraceSignals(k) THEN <<1, 100>> ELSE <<1, 20>>)

\* C10 amended: the trace-derived p-value is 0.01 if the trace test signals
\* cointegration, 0.05 if it ran and does not, and 1.0 if its computation
\* failed.
C10_RuleAndPValue ==
    Returned =>
        /\ RowsAreCandidates
        /\ \A k \in Candidates :
              /\ (RowsOf(k) # {}) <=> PassesRule(k)
              /\ \A r \in RowsOf(k) :
                    pairs_df[r].Cointegration_PValue =
                        RMin(EGPValue(k),
                             IF TraceSignals(k) THEN <<1, 100>>
                             ELSE IF scan.tested[k].joh.raised THEN One
                             ELSE <<1, 20>>)

\* a scan that keeps one pair on its Engle-Granger p-value although the
\* trace test failed, keeps one on the trace test alone, and drops one
C10_Witness ==
    /\ Returned
    /\ \E k \in Candidates :
          /\ RowsOf(k) # {}
          /\ scan.tested[k].joh.raised
          /\ RGt(EGPValue(k), <<1, 20>>)
    /\ \E k \in Candidates :
          /\ RowsOf(k) # {}
          /\ TraceSignals(k)
          /\ ~RLt(EGPValue(k), finder.cointegration_pvalue)
    /\ \E k \in Candidates : scan.tested[k].ran /\ RowsOf(k) = {}

----------------------------------------------------------------------------
(* The correlation pre-filter and the empty results of find_pairs          *)

\* the call went past the check of the panel (line 39)
Scanned == pc \in {"testing", "returned"} /\ ~panel.empty /\ Len(panel.columns) >= 2

CorrOf(i, j) == panel.corr[{panel.columns[i], panel.columns[j]}]

Qualifies(i, j) ==
    /\ i < j
    /\ ~IsNaN(CorrOf(i, j))
    /\ RGe(RAbs(CorrOf(i, j)), finder.correlation_threshold)

\* C11: the candidates of the pre-filter are exactly the column pairs
\* (i, j), i < j, whose correlation is defined and at least the threshold in
\* absolute value, each once, with its correlation, and no self-pair.
C11_PreFilterExact ==
    Scanned =>
        LET hc == scan.high_corr_pairs
            n == Len(panel.columns)
        IN  /\ \A i, j \in 1..n :
                  Qualifies(i, j) <=>
                      \E k \in 1..Len(hc) : /\ hc[k].stock1 = panel.columns[i]
                                            /\ hc[k].stock2 = panel.columns[j]
                                            /\ hc[k].correlation = CorrOf(i, j)
            /\ \A k \in 1..Len(hc) : hc[k].stock1 # hc[k].stock2
            /\ \A k, l \in 1..Len(hc) :
                  k # l => {hc[k].stock1, hc[k].stock2} # {hc[l].stock1, hc[l].stock2}

\* a scan of three columns keeping a pair of correlation -0.95, a pair
\* exactly at the threshold, and dropping a pair below it
C11_Witness ==
    /\ Scanned
    /\ Len(panel.columns) = 3
    /\ Len(scan.high_corr_pairs) = 2
    /\ \E k \in 1..2 : scan.high_corr_pairs[k].correlation = <<-19, 20>>
    /\ \E k \in 1..2 : scan.high_corr_pairs[k].correlation = finder.correlation_threshold
    /\ \E i, j \in 1..3 : i < j /\ CorrOf(i, j) = <<-3, 5>>

\* C12 as stated: the rows are ordered by Cointegration_PValue ascending
\* and, at equal p-value, by the absolute value of Correlation descending.
C12_SortedByPValueThenAbsCorrelation ==
    Returned =>
        \A r \in 1..(Len(pairs_df) - 1) :
            \/ RLt(pairs_df[r].Cointegration_PValue, pairs_df[r + 1].Cointegration_PValue)
            \/ /\ pairs_df[r].Cointegration_PValue = pairs_df[r + 1].Cointegration_PValue
               /\ RGe(RAbs(pairs_df[r].Correlation), RAbs(pairs_df[r + 1].Correlation))

\* the three causes of an empty result
FewAssets == panel.empty \/ Len(panel.columns) < 2
NoCandidate == ~FewAssets /\ \A i, j \in 1..Len(panel.columns) : ~Qualifies(i, j)
NonePasses == ~FewAssets /\ ~NoCandidate /\ \A k \in Candidates : ~PassesRule(k)

\* C13: with fewer than 2 assets (or an empty panel), with no pair clearing
\* the correlation filter, or with no candidate clearing the cointegration
\* filter, find_pairs returns normally and its result is empty.
C13_EmptyResultInThreeCases ==
    /\ pc \in {"ready", "testing", "returned"}
    /\ Returned => ((FewAssets \/ NoCandidate \/ NonePasses) => pairs_df = <<>>)
    /\ ~(pc = "testing" /\ NoCandidate)

\* every candidate was tested, with a failed test among them, and none passed
C13_Witness ==
    /\ Returned
    /\ NonePasses
    /\ Len(scan.tested) = 3
    /\ \E k \in Candidates : scan.tested[k].ran /\ scan.tested[k].joh.raised
    /\ pairs_df = <<>>

\* C14 as stated: an empty result comes with a reason that tells which of
\* the three causes applied.
C14_EmptyResultNamesItsCause ==
    (Returned /\ pairs_df = <<>>) =>
        /\ stdout # <<>>
        /\ FewAssets => stdout[Len(stdout)] \notin {"no high correlation pairs",
                                                    "no cointegrated pairs"}
        /\ NoCandidate => stdout[Len(stdout)] = "no high correlation pairs"
        /\ NonePasses => stdout[Len(stdout)] = "no cointegrated pairs"

----------------------------------------------------------------------------
(* Failed test computations                                                *)

EGFailed(k) == scan.tested[k].ran /\ scan.tested[k].eg.raised
TraceFailed(k) == scan.tested[k].ran /\ scan.tested[k].joh.raised

\* the rows find_pairs returns when only the candidates of keep are tested,
\* each with the outcomes its tests had in this scan
RECURSIVE RowsOfScan(_, _)
RowsOfScan(keep, n) ==
    IF n = 0 THEN <<>>
    ELSE RowsOfScan(keep, n - 1) \o
         (IF n \in keep /\ scan.tested[n].ran
          THEN TestCandidate(finder, panel, scan.high_corr_pairs[n],
                             scan.tested[n].eg, scan.tested[n].joh)
          ELSE <<>>)

WithoutCandidates(dropped) ==
    FinishFindPairs(RowsOfScan(Candidates \ dropped, Len(scan.tested))).df

\* C15 as stated: a candidate with a failed test computation is absent
\* from the output, and the output is the one of the scan without it.
C15_FailedTestDropsPair ==
    (Returned /\ "tested" \in DOMAIN scan) =>
        LET failed == {k \in Candidates : EGFailed(k) \/ TraceFailed(k)}
        IN  /\ Len(scan.tested) = Len(scan.high_corr_pairs)
            /\ \A k \in failed : RowsOf(k) = {}
            /\ pairs_df = WithoutCandidates(failed)

\* C15 amended: a failed test counts as p-value 1.0 and no cointegration,
\* so the pair is kept only when its other test passes the decision rule;
\* every candidate is evaluated, and the output is the one of the scan
\* without the candidates that a failed test left out.
C15_FailedTestIsNoEvidence ==
    (Returned /\ "tested" \in DOMAIN scan) =>
        LET lost == {k \in Candidates : (EGFailed(k) \/ TraceFailed(k)) /\ RowsOf(k) = {}}
        IN  /\ Len(scan.tested) = Len(scan.high_corr_pairs)
            /\ \A k \in Candidates :
                  /\ (EGFailed(k) /\ TraceFailed(k)) => RowsOf(k) = {}
                  /\ EGFailed(k) =>
                        /\ (RowsOf(k) # {}) <=> TraceSignals(k)
                        /\ \A r \in RowsOf(k) : pairs_df[r].EG_PValue = One
                  /\ TraceFailed(k) =>
                        /\ (RowsOf(k) # {}) <=>
                               (~scan.tested[k].eg.raised /\
                                RLt(scan.tested[k].eg.p_value, finder.cointegration_pvalue))
                        /\ \A r \in RowsOf(k) :
                               /\ ~pairs_df[r].Johansen_Cointegrated
                               /\ pairs_df[r].Cointegration_PValue = pairs_df[r].EG_PValue
            /\ pairs_df = WithoutCandidates(lost)

\* a scan of three candidates: both tests of one failed, one is kept by its
\* trace test although its residual test failed, one is kept with both run
C15_Witness ==
    /\ Returned
    /\ "tested" \in DOMAIN scan
    /\ Len(scan.tested) = 3
    /\ \E k \in Candidates : EGFailed(k) /\ TraceFailed(k) /\ RowsOf(k) = {}
    /\ \E k \in Candidates : EGFailed(k) /\ ~TraceFailed(k) /\ RowsOf(k) # {}
    /\ \E k \in Candidates : scan.tested[k].ran /\ ~EGFailed(k) /\ ~TraceFailed(k) /\ RowsOf(k) # {}

----------------------------------------------------------------------------
(* Two scans of one panel                                                  *)

Compared == pc = "compared"

PairSet(rows) == {{rows[r].Stock1, rows[r].Stock2} : r \in 1..Len(rows)}
CandidateSet(cands) == {{cands[k].stock1, cands[k].stock2} : k \in 1..Len(cands)}

SameColumnsReordered ==
    /\ twin.finder = finder
    /\ twin.panel.columns # panel.columns
    /\ twin.panel = [panel EXCEPT !.columns = twin.panel.columns]

\* C16 as stated: with the columns of the panel in another order find_pairs
\* returns the same unordered set of pairs.
C16_ColumnOrderKeepsPairSet ==
    (Compared /\ SameColumnsReordered) => PairSet(twin.pairs_df) = PairSet(pairs_df)

\* C17: at a higher correlation threshold the candidates of the pre-filter
\* are among those of the lower threshold, and no more numerous.
C17_HigherThresholdFewerCandidates ==
    (/\ Compared
     /\ twin.panel = panel
     /\ RLe(finder.correlation_threshold, twin.finder.correlation_threshold)) =>
        /\ CandidateSet(twin.high_corr_pairs) \subseteq CandidateSet(scan.high_corr_pairs)
        /\ Len(twin.high_corr_pairs) <= Len(scan.high_corr_pairs)
        /\ \A k \in 1..Len(twin.high_corr_pairs) :
              \E l \in 1..Len(scan.high_corr_pairs) :
                  twin.high_corr_pairs[k] = scan.high_corr_pairs[l]

\* a panel where raising the threshold from 0.8 to 0.85 drops a candidate
\* and keeps another
C17_Witness ==
    /\ Compared
    /\ twin.panel = panel
    /\ finder.correlation_threshold = <<4, 5>>
    /\ twin.finder.correlation_threshold = <<17, 20>>
    /\ Len(scan.high_corr_pairs) = 3
    /\ Len(twin.high_corr_pairs) = 2

----------------------------------------------------------------------------
(* Properties of optimize_z_score and of the selection of the best row     *)

GridBuilt == pc \in {"optimized", "selected"} /\ ~optimizations.raised
Selected == pc = "selected"
Grid == optimizations.rows

Ascending(zs) == \A i, j \in 1..Len(zs) : i < j => RLt(zs[i], zs[j])

\* C18: the grid has exactly one row for every ordered pair (entry, exit)
\* of candidates with entry > exit, none with entry <= exit, and its rows
\* are in the order entry ascending, then exit ascending.
C18_GridIsUpperPairsInOrder ==
    (GridBuilt /\ Ascending(z_scores)) =>
        /\ \A i, j \in 1..Len(z_scores) :
              Cardinality({r \in 1..Len(Grid) : /\ Grid[r].entry = z_scores[i]
                                               /\ Grid[r].exit = z_scores[j]})
                  = IF RGt(z_scores[i], z_scores[j]) THEN 1 ELSE 0
        /\ \A r \in 1..Len(Grid) :
              /\ RGt(Grid[r].entry, Grid[r].exit)
              /\ \E i, j \in 1..Len(z_scores) : /\ Grid[r].entry = z_scores[i]
                                                /\ Grid[r].exit = z_scores[j]
        /\ \A r \in 1..(Len(Grid) - 1) :
              \/ RLt(Grid[r].entry, Grid[r + 1].entry)
              \/ Grid[r].entry = Grid[r + 1].entry /\ RLt(Grid[r].exit, Grid[r + 1].exit)

\* the grid of the candidates 0.25, 0.5, 1.0 on a spread that trades
C18_Witness ==
    /\ GridBuilt
    /\ Len(z_scores) = 3
    /\ Len(Grid) = 3
    /\ <<Grid[1].entry, Grid[1].exit>> = <<Half, <<1, 4>>>>
    /\ <<Grid[2].entry, Grid[2].exit>> = <<One, <<1, 4>>>>
    /\ <<Grid[3].entry, Grid[3].exit>> = <<One, Half>>
    /\ \E r \in 1..3 : Grid[r].sharpe_ratio.sgn # 0

\* C19: the row selected from a grid has the largest sharpe_ratio of the
\* grid, and every row enumerated before it has a smaller one.
C19_BestIsFirstMaximum ==
    (Selected /\ ~best_results.raised) =>
        /\ best_results.index \in 1..Len(Grid)
        /\ best_results.row = Grid[best_results.index]
        /\ \A r \in 1..Len(Grid) :
              ~SurdLess(best_results.row.sharpe_ratio, Grid[r].sharpe_ratio)
        /\ \A r \in 1..(best_results.index - 1) :
              SurdLess(Grid[r].sharpe_ratio, best_results.row.sharpe_ratio)

\* the second row is selected: the first has a smaller sharpe_ratio and the
\* third the same
C19_Witness ==
    /\ Selected
    /\ ~best_results.raised
    /\ Len(Grid) = 3
    /\ best_results.index = 2
    /\ Grid[3].sharpe_ratio = Grid[2].sharpe_ratio
    /\ SurdLess(Grid[1].sharpe_ratio, Grid[2].sharpe_ratio)

\* C20 as stated: when no pair of candidates has entry > exit, optimization
\* and selection end without an exception.
C20_EmptyGridIsNoException ==
    (Selected /\ \A i, j \in 1..Len(z_scores) : ~RGt(z_scores[i], z_scores[j])) =>
        ~optimizations.raised /\ ~best_results.raised

----------------------------------------------------------------------------
(* C21: configuration outside the documented ranges                        *)

\* C21: a simulation called with entry z-score <= exit z-score is rejected
\* with an error outcome; it is not executed with these values.
C21_InvalidThresholdsRejected ==
    (Done /\ RLe(entry_z_score, exit_z_score)) =>
        /\ "error" \in DOMAIN result
        /\ ~Full

----------------------------------------------------------------------------
(* C28: the reported p-value of a retained pair                            *)

\* C28: every row returned by find_pairs has a Cointegration_PValue that is
\* below the configured threshold or at most 0.01; a row reports 0.05 or
\* more only under a threshold larger than the value it reports.
C28_ReportedPValueIsSmall ==
    Returned =>
        \A r \in 1..Len(pairs_df) :
            LET p == pairs_df[r].Cointegration_PValue
            IN  /\ RLt(p, finder.cointegration_pvalue) \/ RLe(p, <<1, 100>>)
                /\ RGe(p, <<1, 20>>) => RGt(finder.cointegration_pvalue, p)

\* a scan under threshold 0.1 keeping one pair on the trace test alone
\* (its residual test failed), reported at 0.01, and one pair on its
\* Engle-Granger p-value 0.08 (its trace test failed), reported at 0.08
C28_Witness ==
    /\ Returned
    /\ finder.cointegration_pvalue = <<1, 10>>
    /\ \E r \in 1..Len(pairs_df) :
          /\ pairs_df[r].EG_PValue = One
          /\ pairs_df[r].Johansen_Cointegrated
          /\ pairs_df[r].Cointegration_PValue = <<1, 100>>
    /\ \E r \in 1..Len(pairs_df) :
          /\ pairs_df[r].EG_PValue = <<2, 25>>
          /\ ~pairs_df[r].Johansen_Cointegrated
          /\ pairs_df[r].Cointegration_PValue = <<2, 25>>

----------------------------------------------------------------------------
(* C29: dates following a FLAT position                                    *)

\* C29: on every date whose previous position is FLAT the strategy return
\* is 0 and the cumulative return is that of the previous date; on the
\* first windowSize - 1 dates, windowSize = min(60, rows // 4), the position
\* is FLAT and the cumulative return is exactly 1.
C29_FlatDatesLeaveReturnsAlone ==
    (Done /\ Full) =>
        /\ \A t \in 2..Rows :
              result.data.position[t - 1] = 0 =>
                  /\ result.data.strategy_returns[t] = Zero
                  /\ result.data.cumulative_returns[t] =
                         result.data.cumulative_returns[t - 1]
        /\ \A t \in 1..(RollingWindow(Rows) - 1) :
              /\ result.data.position[t] = 0
              /\ result.data.cumulative_returns[t] = One

\* a run whose two prices move apart on a date before the window is full,
\* and again on a date after a position was closed with a gain or a loss
C29_Witness ==
    /\ Done /\ Full
    /\ \E t \in 2..(RollingWindow(Rows) - 1) :
          result.data.stock1_returns[t] # result.data.stock2_returns[t]
    /\ \E t \in 2..Rows :
          /\ result.data.position[t - 1] = 0
          /\ result.data.stock1_returns[t] # result.data.stock2_returns[t]
          /\ result.data.cumulative_returns[t] # One

----------------------------------------------------------------------------
(* C30: the exit threshold in the grid of optimize_z_score                 *)

NonNegative(zs) == \A i \in 1..Len(zs) : RGe(zs[i], Zero)

\* rows with the same entry carry the same total_return and sharpe_ratio
MetricsDependOnEntryOnly ==
    \A r, q \in 1..Len(Grid) :
        Grid[r].entry = Grid[q].entry =>
            /\ Grid[r].total_return = Grid[q].total_return
            /\ Grid[r].sharpe_ratio = Grid[q].sharpe_ratio

BestExitIsSmallestCandidate ==
    \A i \in 1..Len(z_scores) : RLe(best_results.row.exit, z_scores[i])

\* C30 as stated: with non-negative candidates the rows of one entry carry
\* identical metrics, and the exit of the selected row is the smallest
\* candidate.
C30_BestExitIsSmallestCandidate ==
    /\ (GridBuilt /\ NonNegative(z_scores)) => MetricsDependOnEntryOnly
    /\ (Selected /\ ~best_results.raised /\ NonNegative(z_scores)) =>
            BestExitIsSmallestCandidate

\* C30 amended: with non-negative candidates the rows of one entry carry
\* identical metrics; for an ascending candidate list the exit of the
\* selected row is the smallest candidate.
C30_BestExitIsSmallestOfAscending ==
    /\ (GridBuilt /\ NonNegative(z_scores)) => MetricsDependOnEntryOnly
    /\ (Selected /\ ~best_results.raised /\ NonNegative(z_scores)
            /\ Ascending(z_scores)) =>
            BestExitIsSmallestCandidate

\* the candidates 0.25, 0.5, 1.0: the rows (1.0, 0.25) and (1.0, 0.5) carry
\* the same nonzero sharpe_ratio, larger than that of (0.5, 0.25), and the
\* first of them is selected
C30_Witness ==
    /\ Selected
    /\ ~best_results.raised
    /\ Ascending(z_scores)
    /\ Len(Grid) = 3
    /\ Grid[2].entry = Grid[3].entry
    /\ Grid[2].exit # Grid[3].exit
    /\ Grid[2].sharpe_ratio.sgn # 0
    /\ Grid[2].total_return # Grid[1].total_return
    /\ best_results.row.exit = z_scores[1]
    /\ best_results.row.entry = z_scores[3]

----------------------------------------------------------------------------
(* C23, C24: pair_trading_analysis against its grid row                    *)

Analyzed == pc = "analyzed" /\ results.called /\ ~results.out.none

\* exit <= |z| <= entry
InDeadZone(z) ==
    /\ SurdGe(z, RNeg(results.entry_threshold))
    /\ SurdLe(z, results.entry_threshold)
    /\ ~SurdAbsLt(z, results.exit_threshold)

\* C23: in pair_trading_analysis a LONG or SHORT position persists on the
\* following dates while z stays in the dead zone exit <= |z| <= entry, and
\* returns to FLAT only on a date with |z| < exit.
C23_PositionPersistsInDeadZone ==
    Analyzed =>
        \A t \in 2..Len(results.out.position) :
            LET prev == results.out.position[t - 1]
                cur == results.out.position[t]
                z == results.out.z_score[t]
            IN  /\ (prev # 0 /\ InDeadZone(z)) => cur = prev
                /\ (prev # 0 /\ cur = 0) => SurdAbsLt(z, results.exit_threshold)

\* the grid rows recorded for the thresholds of the analysis
RowsOfAnalysis ==
    {r \in 1..Len(Grid) : /\ Grid[r].entry = results.entry_threshold
                          /\ Grid[r].exit = results.exit_threshold}

\* C24: the total_return and sharpe_ratio of a grid row equal those
\* pair_trading_analysis returns for the same data, base asset, entry and
\* exit; the analysis of the selected thresholds reproduces the metrics of
\* the selected row.
C24_AnalysisReproducesGridRow ==
    (pc = "analyzed" /\ results.called) =>
        /\ RowsOfAnalysis # {}
        /\ ~results.out.none
        /\ \A r \in RowsOfAnalysis :
              /\ results.out.total_return = Grid[r].total_return
              /\ results.out.sharpe_ratio = Grid[r].sharpe_ratio
        /\ best_results.index # 0 =>
              /\ results.out.total_return = best_results.row.total_return
              /\ results.out.sharpe_ratio = best_results.row.sharpe_ratio

\* the analysis of the selected row of a three-row grid with a nonzero
\* total_return and sharpe_ratio, on a date of which the position is open
C24_Witness ==
    /\ Analyzed
    /\ best_results.index # 0
    /\ Len(Grid) = 3
    /\ results.out.sharpe_ratio.sgn # 0
    /\ results.out.total_return # <<Zero>>
    /\ \E t \in 1..(Len(results.out.position) - 1) : results.out.position[t] # 0

----------------------------------------------------------------------------
(* C22: the range of the investment score                                  *)

Scored == pc = "done" /\ score_args # NoScoreArgs

InRange(x) == RGe(x, Zero) /\ RLe(x, Hundred)

\* C22: the investment score is in [0, 100] for every total return, Sharpe
\* ratio, max drawdown, win rate and correlation in [-1, 1]; each of the
\* five component scores is in [0, 100] and the weights sum to 1.
C22_ScoreInRange ==
    Scored =>
        LET scores == Scores(score_args.backtest_results, score_args.correlation)
        IN  /\ InRange(investment_score)
            /\ \A k \in 1..Len(Metrics) : InRange(scores[Metrics[k]])
            /\ RSum([k \in 1..Len(Metrics) |-> evaluation_weights[Metrics[k]]],
                    Len(Metrics)) = One

\* a score strictly inside the range although the return is above and the
\* drawdown below the points where their components are cut
C22_Witness ==
    /\ Scored
    /\ RGt(score_args.backtest_results.total_return, <<1, 5>>)
    /\ RLt(score_args.backtest_results.max_drawdown, <<-1, 5>>)
    /\ score_args.backtest_results.sharpe_ratio = <<1, 3>>
    /\ score_args.backtest_results.win_rate = <<1, 3>>
    /\ RGt(investment_score, Zero)
    /\ RLt(investment_score, Hundred)

----------------------------------------------------------------------------
(* C25: the thresholds of the command line                                 *)

\* C25: the thresholds given with --correlation and --pvalue are the
\* thresholds of the PairFinder of every period's scan.
C25_ScansUseCommandLineThresholds ==
    \A k \in 1..Len(analyzer.scans) :
        analyzer.scans[k].scanned =>
            /\ analyzer.scans[k].pair_finder.correlation_threshold = args.correlation
            /\ analyzer.scans[k].pair_finder.cointegration_pvalue = args.pvalue

----------------------------------------------------------------------------
(* C26, C27: the stock-list cache                                          *)

\* C26: get_stock_list(market = M) returns stocks of the market M, also
\* when a call for another market filled the cache less than one hour
\* before.
C26_ReturnsRequestedMarket ==
    (stocks.called /\ stocks.market # "ALL") =>
        \A k \in 1..Len(stocks.out) : stocks.out[k].Market = stocks.market

\* C27: a call serves the cached listing only while less than
\* cache_duration seconds have elapsed since it was stored; every call
\* after a longer time, more than one day included, fetches the listing.
C27_CacheServedLessThanOneHour ==
    (stocks.called /\ stocks.cached_at # None) =>
        (stocks.fetched <=> stocks.at - stocks.cached_at.at >= CacheDuration)

====
